---- MODULE Spec2Model ----
(***************************************************************************)
(* A model of the SOR (OTDR trace file) codec of otdr_parser.py and of the *)
(* trace analyzer of otdr_algorithm.py.                                    *)
(*                                                                         *)
(* A byte buffer is a sequence of integers 0..255 (1-based here, 0-based   *)
(* in the source: source offset o addresses element o + 1).  A Python str  *)
(* is the sequence of its code points.  A call that may raise returns a    *)
(* record [st, val, off]: st = "ok" or the name of the exception raised.   *)
(***************************************************************************)
EXTENDS Integers, Sequences, FiniteSets, TLC

VARIABLES
    data,   \* the input buffer handed to the decoder
    pf,     \* parse_file: its position and its locals
    ex,     \* extract_block_data: the request and its outcome
    pr,     \* a primitive read: the call and its outcome
    co,     \* coallesce_results: its position and its locals
    an,     \* plot_and_detect: its inputs, position and locals
    en      \* the encoder: add_block calls on b, m and nm; the round trip

vars == <<data, pf, ex, pr, co, an, en>>

\* The value of a machine that a specification does not run.
Idle == [pc |-> "idle"]

\* Python's None.
None == [none |-> TRUE]

-----------------------------------------------------------------------------
(* Outcomes of calls *)

Ok(v, o) == [st |-> "ok", val |-> v, off |-> o]

Raise(e) == [st |-> e, val |-> None, off |-> -1]

IsOk(r) == r.st = "ok"

\* The call that gave r raised: the exception leaves the caller too;
\* otherwise the caller goes on as K says with the outcome r.
Bind(r, K(_)) == IF IsOk(r) THEN K(r) ELSE r

\* try: r except <exception e>: raise ParseError.
Reraise(r, e) == IF r.st = e THEN [r EXCEPT !.st = "ParseError"] ELSE r

Min(a, b) == IF a < b THEN a ELSE b

Max(a, b) == IF a > b THEN a ELSE b

\* Python's data[a:b] on a sequence, for any integers a and b: a negative
\* index counts from the end, and both are clamped to the sequence.
PySlice(s, a, b) ==
    LET n  == Len(s)
        lo == IF a < 0 THEN Max(a + n, 0) ELSE Min(a, n)
        hi == IF b < 0 THEN Max(b + n, 0) ELSE Min(b, n)
    IN  IF hi <= lo THEN <<>> ELSE SubSeq(s, lo + 1, hi)

\* Python's bytes.find(b'\0', start) for start >= 0: the 0-based index of
\* the first NUL at or after start, or -1.
RECURSIVE FindNul(_, _)
FindNul(s, start) ==
    IF start >= Len(s) THEN -1
    ELSE IF s[start + 1] = 0 THEN start
    ELSE FindNul(s, start + 1)

-----------------------------------------------------------------------------
(* UTF-8, as Python's strict codec decodes and encodes it *)

IsCont(x) == x >= 128 /\ x <= 191

ByteOr(s, i) == IF i <= Len(s) THEN s[i] ELSE -1

\* The length of the well-formed sequence that starts with b1 b2 b3 b4
\* (-1 for a byte past the end), or 0 when there is none.
Utf8Width(b1, b2, b3, b4) ==
    IF b1 < 128 THEN 1
    ELSE IF b1 >= 194 /\ b1 <= 223 /\ IsCont(b2) THEN 2
    ELSE IF b1 = 224 /\ b2 >= 160 /\ b2 <= 191 /\ IsCont(b3) THEN 3
    ELSE IF b1 = 237 /\ b2 >= 128 /\ b2 <= 159 /\ IsCont(b3) THEN 3
    ELSE IF b1 >= 225 /\ b1 <= 239 /\ b1 # 237 /\ IsCont(b2) /\ IsCont(b3)
    THEN 3
    ELSE IF b1 = 240 /\ b2 >= 144 /\ b2 <= 191 /\ IsCont(b3) /\ IsCont(b4)
    THEN 4
    ELSE IF b1 = 244 /\ b2 >= 128 /\ b2 <= 143 /\ IsCont(b3) /\ IsCont(b4)
    THEN 4
    ELSE IF b1 >= 241 /\ b1 <= 243 /\ IsCont(b2) /\ IsCont(b3) /\ IsCont(b4)
    THEN 4
    ELSE 0

Utf8CodePoint(w, b1, b2, b3, b4) ==
    CASE w = 1 -> b1
      [] w = 2 -> (b1 - 192) * 64 + (b2 - 128)
      [] w = 3 -> (b1 - 224) * 4096 + (b2 - 128) * 64 + (b3 - 128)
      [] w = 4 -> (b1 - 240) * 262144 + (b2 - 128) * 4096
                  + (b3 - 128) * 64 + (b4 - 128)

\* bytes.decode("utf-8"): the code points, or UnicodeDecodeError.
RECURSIVE Utf8Decode(_)
Utf8DecodeFrom(s, w) ==
    IF w = 0 THEN Raise("UnicodeDecodeError")
    ELSE Bind(Utf8Decode(SubSeq(s, w + 1, Len(s))),
              LAMBDA rest:
                  Ok(<<Utf8CodePoint(w, s[1], ByteOr(s, 2), ByteOr(s, 3),
                                     ByteOr(s, 4))>> \o rest.val, 0))

Utf8Decode(s) ==
    IF s = <<>> THEN Ok(<<>>, 0)
    ELSE Utf8DecodeFrom(s, Utf8Width(s[1], ByteOr(s, 2), ByteOr(s, 3),
                                     ByteOr(s, 4)))

\* c.encode('utf-8') of one character: its bytes (a surrogate has none:
\* UnicodeEncodeError, written as the empty sequence).
Utf8EncodeChar(cp) ==
    IF cp < 128 THEN <<cp>>
    ELSE IF cp < 2048 THEN <<192 + (cp \div 64), 128 + (cp % 64)>>
    ELSE IF cp >= 55296 /\ cp <= 57343 THEN <<>>
    ELSE IF cp < 65536
         THEN <<224 + (cp \div 4096), 128 + ((cp \div 64) % 64),
                128 + (cp % 64)>>
    ELSE <<240 + (cp \div 262144), 128 + ((cp \div 4096) % 64),
           128 + ((cp \div 64) % 64), 128 + (cp % 64)>>

\* s.encode('utf-8') of a string.
RECURSIVE Utf8Encode(_)
Utf8Encode(s) ==
    IF s = <<>> THEN <<>> ELSE Utf8EncodeChar(Head(s)) \o Utf8Encode(Tail(s))

-----------------------------------------------------------------------------
(* Primitive reads: otdr_parser.py, parse_le_i16 .. block_header *)

\* The unsigned value of the w bytes from offset, least significant first.
RECURSIVE LeValue(_, _, _)
LeValue(s, offset, w) ==
    IF w = 0 THEN 0 ELSE s[offset + 1] + 256 * LeValue(s, offset + 1, w - 1)

\* '<h' and '<i': the two's complement value of the w bytes.  The top byte
\* carries the sign, so that no intermediate value leaves 32 bits.
SignedLe(s, offset, w) ==
    LeValue(s, offset, w - 1)
    + (IF s[offset + w] >= 128 THEN s[offset + w] - 256 ELSE s[offset + w])
      * 256 ^ (w - 1)

\* '<I': an unsigned 32-bit value is kept as its two 16-bit halves (the
\* value is hi * 65536 + lo), since it may exceed 31 bits.
U32(hi, lo) == [hi |-> hi, lo |-> lo]

\* struct.unpack_from(fmt, data, offset)[0] for a field of w bytes at an
\* offset >= 0: struct.error when the buffer does not hold w bytes from
\* there.  fmt is "h", "H", "i" or "I".
unpack_from(fmt, s, offset, w) ==
    IF offset + w > Len(s) THEN Raise("struct.error")
    ELSE Ok(CASE fmt = "h" -> SignedLe(s, offset, 2)
              [] fmt = "H" -> LeValue(s, offset, 2)
              [] fmt = "i" -> SignedLe(s, offset, 4)
              [] fmt = "I" -> U32(LeValue(s, offset + 2, 2),
                                  LeValue(s, offset, 2)),
            offset + w)

parse_le_i16(s, offset) ==
    IF offset + 2 > Len(s) THEN Raise("ParseError")
    ELSE unpack_from("h", s, offset, 2)

parse_le_i32(s, offset) ==
    IF offset + 4 > Len(s) THEN Raise("ParseError")
    ELSE unpack_from("i", s, offset, 4)

parse_le_u16(s, offset) ==
    IF offset + 2 > Len(s) THEN Raise("ParseError")
    ELSE unpack_from("H", s, offset, 2)

parse_le_u32(s, offset) ==
    IF offset + 4 > Len(s) THEN Raise("ParseError")
    ELSE unpack_from("I", s, offset, 4)

\* The length of the buffer not checked: the slice is decoded as it comes.
fixed_length_str_nocheck(s, offset, n_bytes) ==
    Bind(Reraise(Utf8Decode(PySlice(s, offset, offset + n_bytes)),
                 "UnicodeDecodeError"),
         LAMBDA d: Ok(d.val, offset + n_bytes))

\* The offset advanced by the characters decoded, not by the bytes read.
fixed_length_str_chars(s, offset, n_bytes) ==
    IF offset + n_bytes > Len(s) THEN Raise("ParseError")
    ELSE Bind(Reraise(Utf8Decode(PySlice(s, offset, offset + n_bytes)),
                      "UnicodeDecodeError"),
              LAMBDA d: Ok(d.val, offset + Len(d.val)))

fixed_length_str(s, offset, n_bytes) ==
    IF offset + n_bytes > Len(s) THEN Raise("ParseError")
    ELSE Bind(Reraise(Utf8Decode(PySlice(s, offset, offset + n_bytes)),
                      "UnicodeDecodeError"),
              LAMBDA d: Ok(d.val, offset + n_bytes))

\* end is the outcome of data.find(b'\0', offset).
ChunkUpTo(s, offset, end) ==
    IF end = -1 THEN Raise("ParseError")
    ELSE Ok(PySlice(s, offset, end), end + 1)

null_terminated_chunk(s, offset) == ChunkUpTo(s, offset, FindNul(s, offset))

null_terminated_str(s, offset) ==
    Bind(null_terminated_chunk(s, offset),
         LAMBDA c: Bind(Reraise(Utf8Decode(c.val), "UnicodeDecodeError"),
                        LAMBDA d: Ok(d.val, c.off)))

\* expected is header.encode("utf-8").
HeaderAt(s, offset, expected) ==
    IF PySlice(s, offset, offset + Len(expected)) # expected
    THEN Raise("ParseError")
    ELSE IF PySlice(s, offset + Len(expected), offset + Len(expected) + 1)
            # <<0>>
    THEN Raise("ParseError")
    ELSE Ok(None, offset + Len(expected) + 1)

\* header is the tag as a str; the outcome carries the new offset alone.
block_header(s, offset, header) == HeaderAt(s, offset, Utf8Encode(header))

-----------------------------------------------------------------------------
(* Block tags, as str *)

BLOCK_ID_MAP == <<77, 97, 112>>

BLOCK_ID_GENPARAMS == <<71, 101, 110, 80, 97, 114, 97, 109, 115>>

BLOCK_ID_SUPPARAMS == <<83, 117, 112, 80, 97, 114, 97, 109, 115>>

BLOCK_ID_FXDPARAMS == <<70, 120, 100, 80, 97, 114, 97, 109, 115>>

BLOCK_ID_KEYEVENTS == <<75, 101, 121, 69, 118, 101, 110, 116, 115>>

BLOCK_ID_LNKPARAMS == <<76, 110, 107, 80, 97, 114, 97, 109, 115>>

BLOCK_ID_DATAPTS == <<68, 97, 116, 97, 80, 116, 115>>

BLOCK_ID_CHECKSUM == <<67, 107, 115, 117, 109>>

-----------------------------------------------------------------------------
(* Typed block decoders.  A decoder is a run of primitive reads, each      *)
(* starting where the one before stopped; the first read that raises ends  *)
(* the decoder with that exception.  A layout lists the reads of a run:    *)
(* "i16", "u16", "i32", "u32", "s2" and "s6" (fixed_length_str of 2 and 6  *)
(* bytes) and "nts" (null_terminated_str).                                 *)

ReadField(s, offset, kind) ==
    CASE kind = "i16" -> parse_le_i16(s, offset)
      [] kind = "u16" -> parse_le_u16(s, offset)
      [] kind = "i32" -> parse_le_i32(s, offset)
      [] kind = "u32" -> parse_le_u32(s, offset)
      [] kind = "s2"  -> fixed_length_str(s, offset, 2)
      [] kind = "s6"  -> fixed_length_str(s, offset, 6)
      [] kind = "nts" -> null_terminated_str(s, offset)

\* The reads of layout in order from offset: the values read and the offset
\* after the last one, or the first exception.
RECURSIVE ReadFields(_, _, _)
ReadFields(s, offset, layout) ==
    IF layout = <<>> THEN Ok(<<>>, offset)
    ELSE Bind(ReadField(s, offset, Head(layout)),
              LAMBDA r: Bind(ReadFields(s, r.off, Tail(layout)),
                             LAMBDA rest: Ok(<<r.val>> \o rest.val, rest.off)))

\* for _ in range(n): one read of kind each (range(n) is empty for n <= 0).
Repeat(kind, n) == [k \in 1..n |-> kind]

\* The same loop over the buffer s: every read takes at least one byte, so
\* a loop of more turns than s has bytes raises in a turn no later than
\* Len(s) + 1, and the turns after that one never run.
RepeatWithin(kind, n, s) == Repeat(kind, Min(n, Len(s) + 1))

GenParamsLayout ==
    <<"s2", "nts", "nts", "i16", "i16", "nts", "nts", "nts", "s2",
      "i32", "i32", "nts", "nts">>

GeneralParametersBlock(v) ==
    [language_code |-> v[1], cable_id |-> v[2], fiber_id |-> v[3],
     fiber_type |-> v[4], nominal_wavelength |-> v[5],
     originating_location |-> v[6], terminating_location |-> v[7],
     cable_code |-> v[8], current_data_flag |-> v[9], user_offset |-> v[10],
     user_offset_distance |-> v[11], operator |-> v[12], comment |-> v[13]]

general_parameters_block(s, offset) ==
    Bind(block_header(s, offset, BLOCK_ID_GENPARAMS),
         LAMBDA h: Bind(ReadFields(s, h.off, GenParamsLayout),
                        LAMBDA r: Ok(GeneralParametersBlock(r.val), r.off)))

SupParamsLayout == <<"nts", "nts", "nts", "nts", "nts", "nts", "nts">>

SupplierParametersBlock(v) ==
    [supplier_name |-> v[1], otdr_mainframe_id |-> v[2],
     otdr_mainframe_sn |-> v[3], optical_module_id |-> v[4],
     optical_module_sn |-> v[5], software_revision |-> v[6], other |-> v[7]]

supplier_parameters_block(s, offset) ==
    Bind(block_header(s, offset, BLOCK_ID_SUPPARAMS),
         LAMBDA h: Bind(ReadFields(s, h.off, SupParamsLayout),
                        LAMBDA r: Ok(SupplierParametersBlock(r.val), r.off)))

\* The reads before the three arrays, and those after them.
FxdParamsHead == <<"u32", "s2", "i16", "i32", "i32", "i16">>

FxdParamsTail ==
    <<"i32", "i16", "i32", "u16", "i32", "i32", "i32", "u16", "i16", "u16",
      "u16", "u16", "u16", "s2", "i32", "i32", "i32", "i32">>

\* The three loops of fixed_parameters_block, each over
\* range(total_n_pulse_widths_used).
FxdParamsArrays(n) ==
    Repeat("i16", n) \o Repeat("i32", n) \o Repeat("i32", n)

\* a: the values read before the arrays; ar: the values the three loops
\* read, c of them each; v: the values read after the arrays.
FixedParametersBlock(a, ar, c, v) ==
    [date_time_stamp |-> a[1], units_of_distance |-> a[2],
     actual_wavelength |-> a[3], acquisition_offset |-> a[4],
     acquisition_offset_distance |-> a[5],
     total_n_pulse_widths_used |-> a[6],
     pulse_widths_used |-> SubSeq(ar, 1, c),
     data_spacing |-> SubSeq(ar, c + 1, 2 * c),
     n_data_points_for_pulse_widths_used |-> SubSeq(ar, 2 * c + 1, 3 * c),
     group_index |-> v[1], backscatter_coefficient |-> v[2],
     number_of_averages |-> v[3], averaging_time |-> v[4],
     acquisition_range |-> v[5], acquisition_range_distance |-> v[6],
     front_panel_offset |-> v[7], noise_floor_level |-> v[8],
     noise_floor_scale_factor |-> v[9], power_offset_first_point |-> v[10],
     loss_threshold |-> v[11], reflectance_threshold |-> v[12],
     end_of_fibre_threshold |-> v[13], trace_type |-> v[14],
     window_coordinate_1 |-> v[15], window_coordinate_2 |-> v[16],
     window_coordinate_3 |-> v[17], window_coordinate_4 |-> v[18]]

fixed_parameters_block(s, offset) ==
    Bind(block_header(s, offset, BLOCK_ID_FXDPARAMS),
         LAMBDA h:
    Bind(ReadFields(s, h.off, FxdParamsHead),
         LAMBDA a:
    Bind(ReadFields(s, a.off, FxdParamsArrays(a.val[6])),
         LAMBDA ar:
    Bind(ReadFields(s, ar.off, FxdParamsTail),
         LAMBDA t: Ok(FixedParametersBlock(a.val, ar.val, Len(ar.val) \div 3,
                                           t.val), t.off)))))

KeyEventLayout ==
    <<"i16", "i32", "i16", "i16", "i32", "s6", "s2", "i32", "i32", "i32",
      "i32", "i32", "nts">>

KeyEvent(v) ==
    [event_number |-> v[1], event_propogation_time |-> v[2],
     attenuation_coefficient_lead_in_fiber |-> v[3], event_loss |-> v[4],
     event_reflectance |-> v[5], event_code |-> v[6],
     loss_measurement_technique |-> v[7], marker_location_1 |-> v[8],
     marker_location_2 |-> v[9], marker_location_3 |-> v[10],
     marker_location_4 |-> v[11], marker_location_5 |-> v[12],
     comment |-> v[13]]

key_event(s, offset) ==
    Bind(ReadFields(s, offset, KeyEventLayout),
         LAMBDA r: Ok(KeyEvent(r.val), r.off))

LastKeyEventLayout ==
    KeyEventLayout \o <<"i32", "i32", "i32", "u16", "i32", "i32">>

LastKeyEvent(v) ==
    [end_to_end_loss |-> v[14], end_to_end_marker_position_1 |-> v[15],
     end_to_end_marker_position_2 |-> v[16], optical_return_loss |-> v[17],
     optical_return_loss_marker_position_1 |-> v[18],
     optical_return_loss_marker_position_2 |-> v[19]] @@ KeyEvent(v)

last_key_event(s, offset) ==
    Bind(ReadFields(s, offset, LastKeyEventLayout),
         LAMBDA r: Ok(LastKeyEvent(r.val), r.off))

\* for _ in range(n): key_event, appending each.
RECURSIVE ReadKeyEvents(_, _, _)
ReadKeyEvents(s, offset, n) ==
    IF n <= 0 THEN Ok(<<>>, offset)
    ELSE Bind(key_event(s, offset),
              LAMBDA r: Bind(ReadKeyEvents(s, r.off, n - 1),
                             LAMBDA rest: Ok(<<r.val>> \o rest.val, rest.off)))

key_events_block(s, offset) ==
    Bind(block_header(s, offset, BLOCK_ID_KEYEVENTS),
         LAMBDA h:
    Bind(parse_le_i16(s, h.off),
         LAMBDA c:
    IF c.val - 1 < 0 THEN Raise("ParseError")
    ELSE
    Bind(ReadKeyEvents(s, c.off, c.val - 1),
         LAMBDA ks:
    Bind(last_key_event(s, ks.off),
         LAMBDA lke: Ok([number_of_key_events |-> c.val,
                         key_events |-> ks.val,
                         last_key_event |-> lke.val], lke.off)))))

data_points_at_scale_factor(s, offset) ==
    Bind(ReadFields(s, offset, <<"i32", "i16">>),
         LAMBDA h:
    Bind(ReadFields(s, h.off, RepeatWithin("u16", h.val[1], s)),
         LAMBDA d: Ok([n_points |-> h.val[1], scale_factor |-> h.val[2],
                       data |-> d.val], d.off)))

\* for _ in range(n): data_points_at_scale_factor, appending each.
RECURSIVE ReadScaleFactors(_, _, _)
ReadScaleFactors(s, offset, n) ==
    IF n <= 0 THEN Ok(<<>>, offset)
    ELSE Bind(data_points_at_scale_factor(s, offset),
              LAMBDA r: Bind(ReadScaleFactors(s, r.off, n - 1),
                             LAMBDA rest: Ok(<<r.val>> \o rest.val, rest.off)))

data_points_block(s, offset) ==
    Bind(block_header(s, offset, BLOCK_ID_DATAPTS),
         LAMBDA h:
    Bind(ReadFields(s, h.off, <<"i32", "i16">>),
         LAMBDA c:
    Bind(ReadScaleFactors(s, c.off, c.val[2]),
         LAMBDA sf: Ok([number_of_data_points |-> c.val[1],
                        total_number_scale_factors_used |-> c.val[2],
                        scale_factors |-> sf.val], sf.off))))

proprietary_block(s, offset) ==
    Bind(null_terminated_str(s, offset),
         LAMBDA h: Ok([header |-> h.val, data |-> PySlice(s, h.off, Len(s))],
                      Len(s)))

-----------------------------------------------------------------------------
(* The Map directory and the block extractor *)

map_block_info(s, offset) ==
    Bind(ReadFields(s, offset, <<"nts", "u16", "i32">>),
         LAMBDA r: Ok([identifier |-> r.val[1], revision_number |-> r.val[2],
                       size |-> r.val[3]], r.off))

\* for _ in range(n): map_block_info, appending each.
RECURSIVE ReadBlockInfos(_, _, _)
ReadBlockInfos(s, offset, n) ==
    IF n <= 0 THEN Ok(<<>>, offset)
    ELSE Bind(map_block_info(s, offset),
              LAMBDA r: Bind(ReadBlockInfos(s, r.off, n - 1),
                             LAMBDA rest: Ok(<<r.val>> \o rest.val, rest.off)))

map_block(s, offset) ==
    Bind(block_header(s, offset, BLOCK_ID_MAP),
         LAMBDA h:
    Bind(ReadFields(s, h.off, <<"u16", "i32", "i16">>),
         LAMBDA f:
    IF f.val[3] - 1 < 0 THEN Raise("ParseError")
    ELSE
    Bind(ReadBlockInfos(s, f.off, f.val[3] - 1),
         LAMBDA bis: Ok([revision_number |-> f.val[1],
                         block_size |-> f.val[2],
                         block_count |-> f.val[3],
                         block_info |-> bis.val], bis.off))))

\* The running offset not advanced past an entry that is skipped.
RECURSIVE ExtractWalk_noadvance(_, _, _, _, _)
ExtractWalk_noadvance(block_info, header, k, offset, length) ==
    IF k > Len(block_info)
    THEN [st |-> "ok", offset |-> offset, length |-> length]
    ELSE IF block_info[k].identifier = header
    THEN [st |-> "ok", offset |-> offset, length |-> block_info[k].size]
    ELSE IF offset + block_info[k].size < offset
    THEN Raise("ParseError")
    ELSE ExtractWalk_noadvance(block_info, header, k + 1, offset,
                               block_info[k].size)

\* The loop of extract_block_data from entry k on, with the running offset
\* and length: where the loop ends (st = "ok": at a match, or past the last
\* entry) or ParseError when the offset decreases.  Python integers do not
\* wrap: the offset decreases only when a size is negative.
RECURSIVE ExtractWalk(_, _, _, _, _)
ExtractWalk(block_info, header, k, offset, length) ==
    IF k > Len(block_info)
    THEN [st |-> "ok", offset |-> offset, length |-> length]
    ELSE IF block_info[k].identifier = header
    THEN [st |-> "ok", offset |-> offset, length |-> block_info[k].size]
    ELSE IF offset + block_info[k].size < offset
    THEN Raise("ParseError")
    ELSE ExtractWalk(block_info, header, k + 1, offset + block_info[k].size,
                     block_info[k].size)

\* The end of the range checked, its start not.
ExtractRange_endonly(s, offset, length) ==
    IF offset + length > Len(s) THEN Raise("ParseError")
    ELSE Ok(PySlice(s, offset, offset + length), offset)

\* The statements of extract_block_data after its loop.
ExtractRange(s, offset, length) ==
    IF offset > Len(s) \/ offset + length > Len(s) THEN Raise("ParseError")
    ELSE Ok(PySlice(s, offset, offset + length), offset)

extract_block_data(s, header, map_blk) ==
    Bind(ExtractWalk(map_blk.block_info, header, 1, map_blk.block_size, 0),
         LAMBDA w: ExtractRange(s, w.offset, w.length))

-----------------------------------------------------------------------------
(* parse_file *)

\* The locals of parse_file that become the fields of the SORFile.
NoBlocks ==
    [general_parameters |-> None, supplier_parameters |-> None,
     fixed_parameters |-> None, key_events |-> None,
     link_parameters |-> None, data_points |-> None,
     proprietary_blocks |-> <<>>]

\* except ParseError: block_data = b"".  Any other exception propagates.
OrEmpty(e) == IF e.st = "ParseError" THEN Ok(<<>>, 0) ELSE e

BlockData(s, bi, map_blk) ==
    OrEmpty(extract_block_data(s, bi.identifier, map_blk))

\* The chain without its LnkParams branch: the entry falls through to the
\* proprietary decoder.
Dispatch_nolnk(id, block_data, loc) ==
    IF id = BLOCK_ID_SUPPARAMS
    THEN Bind(supplier_parameters_block(block_data, 0),
              LAMBDA r: Ok([loc EXCEPT !.supplier_parameters = r.val], 0))
    ELSE IF id = BLOCK_ID_GENPARAMS
    THEN Bind(general_parameters_block(block_data, 0),
              LAMBDA r: Ok([loc EXCEPT !.general_parameters = r.val], 0))
    ELSE IF id = BLOCK_ID_FXDPARAMS
    THEN Bind(fixed_parameters_block(block_data, 0),
              LAMBDA r: Ok([loc EXCEPT !.fixed_parameters = r.val], 0))
    ELSE IF id = BLOCK_ID_KEYEVENTS
    THEN Bind(key_events_block(block_data, 0),
              LAMBDA r: Ok([loc EXCEPT !.key_events = r.val], 0))
    ELSE IF id = BLOCK_ID_DATAPTS
    THEN Bind(data_points_block(block_data, 0),
              LAMBDA r: Ok([loc EXCEPT !.data_points = r.val], 0))
    ELSE IF id = BLOCK_ID_CHECKSUM THEN Ok(loc, 0)
    ELSE Bind(proprietary_block(block_data, 0),
              LAMBDA r: Ok([loc EXCEPT !.proprietary_blocks =
                                           Append(@, r.val)], 0))

\* The if/elif chain of parse_file on the identifier id, with the block's
\* bytes and the locals loc: the locals after it, or the exception.
Dispatch(id, block_data, loc) ==
    IF id = BLOCK_ID_SUPPARAMS
    THEN Bind(supplier_parameters_block(block_data, 0),
              LAMBDA r: Ok([loc EXCEPT !.supplier_parameters = r.val], 0))
    ELSE IF id = BLOCK_ID_GENPARAMS
    THEN Bind(general_parameters_block(block_data, 0),
              LAMBDA r: Ok([loc EXCEPT !.general_parameters = r.val], 0))
    ELSE IF id = BLOCK_ID_FXDPARAMS
    THEN Bind(fixed_parameters_block(block_data, 0),
              LAMBDA r: Ok([loc EXCEPT !.fixed_parameters = r.val], 0))
    ELSE IF id = BLOCK_ID_KEYEVENTS
    THEN Bind(key_events_block(block_data, 0),
              LAMBDA r: Ok([loc EXCEPT !.key_events = r.val], 0))
    ELSE IF id = BLOCK_ID_LNKPARAMS THEN Ok(loc, 0)
    ELSE IF id = BLOCK_ID_DATAPTS
    THEN Bind(data_points_block(block_data, 0),
              LAMBDA r: Ok([loc EXCEPT !.data_points = r.val], 0))
    ELSE IF id = BLOCK_ID_CHECKSUM THEN Ok(loc, 0)
    ELSE Bind(proprietary_block(block_data, 0),
              LAMBDA r: Ok([loc EXCEPT !.proprietary_blocks =
                                           Append(@, r.val)], 0))

\* The body of the loop of parse_file for entry bi with the locals loc: the
\* locals after it (val), or the exception that leaves parse_file.
ParseEntry(s, map_blk, bi, loc) ==
    Bind(BlockData(s, bi, map_blk),
         LAMBDA bd: Dispatch(bi.identifier, bd.val, loc))

SORFile(map_blk, loc) == [map |-> map_blk] @@ loc

\* The loop of parse_file from entry k on.
RECURSIVE ParseEntries(_, _, _, _)
ParseEntries(s, map_blk, k, loc) ==
    IF k > Len(map_blk.block_info) THEN Ok(SORFile(map_blk, loc), 0)
    ELSE Bind(ParseEntry(s, map_blk, map_blk.block_info[k], loc),
              LAMBDA r: ParseEntries(s, map_blk, k + 1, r.val))

\* parse_file as one call: the SORFile, or the exception.
parse_file(s) ==
    Bind(map_block(s, 0), LAMBDA m: ParseEntries(s, m.val, 1, NoBlocks))

-----------------------------------------------------------------------------
(* Crafted buffers: the inputs of the decoder.  A buffer is laid out field *)
(* by field as the format prescribes; a crafted buffer may also be         *)
(* malformed.                                                              *)

\* The w bytes, least significant first, of the two's complement of v.
RECURSIVE LeBytes(_, _)
LeBytes(v, w) ==
    IF w = 0 THEN <<>> ELSE <<v % 256>> \o LeBytes(v \div 256, w - 1)

CraftField(kind, v) ==
    CASE kind \in {"i16", "u16"} -> LeBytes(v, 2)
      [] kind = "i32"            -> LeBytes(v, 4)
      [] kind = "u32"            -> LeBytes(v.lo, 2) \o LeBytes(v.hi, 2)
      [] kind \in {"s2", "s6"}   -> Utf8Encode(v)
      [] kind = "nts"            -> Utf8Encode(v) \o <<0>>

RECURSIVE CraftFields(_, _)
CraftFields(layout, values) ==
    IF layout = <<>> THEN <<>>
    ELSE CraftField(Head(layout), Head(values))
         \o CraftFields(Tail(layout), Tail(values))

CraftBlock(tag, layout, values) ==
    Utf8Encode(tag) \o <<0>> \o CraftFields(layout, values)

\* "EN", and a two-byte language code that is one character (e acute).
LangEN == <<69, 78>>

LangAccent == <<233>>

VendorId == <<65, 99, 109, 101>>

GenValues(lang) ==
    <<lang, <<99, 49>>, <<>>, 652, 1310, <<65>>, <<66>>, <<>>, <<78, 67>>,
      -5, 70000, <<111, 112>>, <<>>>>

GenBody(lang) == CraftBlock(BLOCK_ID_GENPARAMS, GenParamsLayout, GenValues(lang))

SupBody ==
    CraftBlock(BLOCK_ID_SUPPARAMS, SupParamsLayout,
               <<<<86>>, <<>>, <<49, 50>>, <<>>, <<>>, <<114, 233>>, <<>>>>)

\* Fixed parameters with n pulse widths, group index gi, data spacing ds
\* and front panel offset fpo.
FxdBody(n, gi, ds, fpo) ==
    CraftBlock(BLOCK_ID_FXDPARAMS,
               FxdParamsHead \o FxdParamsArrays(n) \o FxdParamsTail,
               <<U32(25940, 61696), <<109, 116>>, 1550, 0, -1, n>>
               \o [k \in 1..n |-> 10 * k] \o [k \in 1..n |-> ds + k - 1]
               \o [k \in 1..n |-> 100 + k]
               \o <<gi, 800, 3, 40000, 2, 3, fpo, 65535, -200, 5, 6, 7, 8,
                    <<83, 84>>, 1, 2, 3, 4>>)

KeyEventValues(k) ==
    <<k, 100 * k, 2, -3, -40000, <<49, 70, 57, 57, 57, 57>>, <<76, 83>>,
      1, 2, 3, 4, 5, <<101>>>>

RECURSIVE CraftKeyEvents(_, _)
CraftKeyEvents(k, n) ==
    IF k > n THEN <<>>
    ELSE CraftFields(KeyEventLayout, KeyEventValues(k)) \o CraftKeyEvents(k + 1, n)

\* Key events with declared count c: c - 1 events and the last one.
KeyBody(c) ==
    CraftBlock(BLOCK_ID_KEYEVENTS, <<"i16">>, <<c>>)
    \o CraftKeyEvents(1, c - 1)
    \o CraftFields(LastKeyEventLayout,
                   KeyEventValues(c) \o <<9, 0, 10, 33000, 0, 10>>)

\* Data points: one scale-factor group per element of groups, each a
\* record [scale_factor, data].
CraftGroup(g) ==
    CraftFields(<<"i32", "i16">> \o Repeat("u16", Len(g.data)),
                <<Len(g.data), g.scale_factor>> \o g.data)

RECURSIVE CraftGroups(_)
CraftGroups(groups) ==
    IF groups = <<>> THEN <<>>
    ELSE CraftGroup(Head(groups)) \o CraftGroups(Tail(groups))

DataBody(groups) ==
    CraftBlock(BLOCK_ID_DATAPTS, <<"i32", "i16">>,
               <<IF groups = <<>> THEN 0 ELSE Len(groups[1].data),
                 Len(groups)>>)
    \o CraftGroups(groups)

VendorBody == CraftBlock(VendorId, <<"u16", "u16">>, <<513, 65280>>)

\* A directory entry to craft: the identifier, the revision, the body
\* written to the buffer and the size the directory declares for it.
Entry(id, rev, body, size) ==
    [identifier |-> id, revision_number |-> rev, body |-> body, size |-> size]

Exact(id, rev, body) == Entry(id, rev, body, Len(body))

\* The header of the Map block: tag, NUL, revision, block_size, block_count.
MapHeaderLen == 4 + 2 + 4 + 2

CraftDirectoryEntry(e) ==
    CraftFields(<<"nts", "u16", "i32">>,
                <<e.identifier, e.revision_number, e.size>>)

RECURSIVE CraftDirectory(_)
CraftDirectory(entries) ==
    IF entries = <<>> THEN <<>>
    ELSE CraftDirectoryEntry(Head(entries)) \o CraftDirectory(Tail(entries))

RECURSIVE CraftBodies(_)
CraftBodies(entries) ==
    IF entries = <<>> THEN <<>>
    ELSE Head(entries).body \o CraftBodies(Tail(entries))

\* A file: the Map (declaring block_size and block_count as given), then
\* the bodies in directory order.
CraftFile(rev, block_size, block_count, entries) ==
    CraftBlock(BLOCK_ID_MAP, <<"u16", "i32", "i16">>,
               <<rev, block_size, block_count>>)
    \o CraftDirectory(entries) \o CraftBodies(entries)

\* The length of the Map block of a file with these entries.
MapLen(entries) == MapHeaderLen + Len(CraftDirectory(entries))

\* A well-formed file: block_size the length of the Map, block_count one
\* more than the number of entries.
CraftValidFile(entries) ==
    CraftFile(200, MapLen(entries), Len(entries) + 1, entries)

-----------------------------------------------------------------------------
(* Specification Spec: parse_file on crafted files, one action per step    *)

\* The most directory entries of a crafted file.
MaxEntries == 2

\* How far past the end of any crafted buffer an out-of-range entry reaches.
FarBeyond == 1000

\* The samples of the crafted data points block.
SampleData == <<65535, 65000, 64000>>

\* The entries a crafted file is made of: well-formed blocks of every kind,
\* blocks whose declared range leaves the buffer, and blocks whose body the
\* decoder rejects.
EntryOptions ==
    { Exact(BLOCK_ID_GENPARAMS, 2, GenBody(LangEN)),
      Exact(BLOCK_ID_GENPARAMS, 2, GenBody(LangAccent)),
      Exact(BLOCK_ID_GENPARAMS, 2, SubSeq(GenBody(LangEN), 1, 20)),
      Entry(BLOCK_ID_GENPARAMS, 2, GenBody(LangEN), FarBeyond),
      Exact(BLOCK_ID_SUPPARAMS, 2, SupBody),
      Exact(BLOCK_ID_FXDPARAMS, 2, FxdBody(1, 146800, 2500, 0)),
      Exact(BLOCK_ID_KEYEVENTS, 2, KeyBody(2)),
      Exact(BLOCK_ID_KEYEVENTS, 2, KeyBody(0)),
      Exact(BLOCK_ID_DATAPTS, 2,
            DataBody(<<[scale_factor |-> 1000, data |-> SampleData]>>)),
      Exact(BLOCK_ID_LNKPARAMS, 2, <<1, 2, 3>>),
      Entry(BLOCK_ID_LNKPARAMS, 2, <<>>, FarBeyond),
      Exact(BLOCK_ID_CHECKSUM, 2, <<171, 205>>),
      Entry(BLOCK_ID_CHECKSUM, 2, <<171, 205>>, FarBeyond),
      Exact(VendorId, 7, VendorBody),
      Exact(<<86>>, 7, <<86, 0, 5>>),
      Exact(VendorId, 7, <<65, 99>>),
      Entry(VendorId, 7, VendorBody, FarBeyond) }

SeqsUpTo(S, n) ==
    IF n = 0 THEN {<<>>} ELSE UNION {[1..k -> S] : k \in 0..n}

\* What is done to a well-formed file to damage its Map.
MapDamages ==
    {"none", "tag", "nul", "header", "count0", "countneg", "entry", "unterminated"}

SetByte(s, i, v) == [s EXCEPT ![i] = v]

\* The file f, whose Map is n bytes long, damaged.
Damage(f, n, kind) ==
    CASE kind = "none"     -> f
      [] kind = "tag"      -> SetByte(f, 2, 65)
      [] kind = "nul"      -> SetByte(f, 4, 1)
      [] kind = "header"   -> PySlice(f, 0, 9)
      [] kind = "count0"   -> SetByte(SetByte(f, 11, 0), 12, 0)
      [] kind = "countneg" -> SetByte(SetByte(f, 11, 255), 12, 255)
      [] kind = "entry"    -> PySlice(f, 0, n - 3)
      [] kind = "unterminated" -> PySlice(f, 0, MapHeaderLen + 2)

ParseInputs ==
    {Damage(CraftValidFile(es), MapLen(es), k) :
        es \in SeqsUpTo(EntryOptions, MaxEntries), k \in MapDamages}

PfStart ==
    [pc |-> "start", map_blk |-> None, i |-> 0, loc |-> NoBlocks,
     ret |-> None, exc |-> "none"]

Init ==
    /\ data \in ParseInputs
    /\ pf = PfStart
    /\ ex = Idle /\ pr = Idle /\ co = Idle /\ an = Idle /\ en = Idle

\* map_blk, _ = map_block(data, 0), then the locals set to None and [].
AfterMap(p, m) ==
    IF IsOk(m) THEN [p EXCEPT !.pc = "loop", !.map_blk = m.val, !.i = 1]
    ELSE [p EXCEPT !.pc = "raised", !.exc = m.st]

ParseMap ==
    /\ pf.pc = "start"
    /\ pf' = AfterMap(pf, map_block(data, 0))
    /\ UNCHANGED <<data, ex, pr, co, an, en>>

\* One turn of the loop over map_blk.block_info.
\* A decoder's exception swallowed: the loop goes on with the next entry.
AfterEntry_swallow(p, r) ==
    IF IsOk(r) THEN [p EXCEPT !.loc = r.val, !.i = @ + 1]
    ELSE [p EXCEPT !.i = @ + 1]

\* The outcome r of the loop body for entry p.i: the next entry, or the
\* exception leaves parse_file.
AfterEntry(p, r) ==
    IF IsOk(r) THEN [p EXCEPT !.loc = r.val, !.i = @ + 1]
    ELSE [p EXCEPT !.pc = "raised", !.exc = r.st]

ParseNextEntry ==
    /\ pf.pc = "loop"
    /\ pf.i <= Len(pf.map_blk.block_info)
    /\ pf' = AfterEntry(pf, ParseEntry(data, pf.map_blk,
                                       pf.map_blk.block_info[pf.i], pf.loc))
    /\ UNCHANGED <<data, ex, pr, co, an, en>>

\* The loop is over: the SORFile is built and returned.
ParseReturn ==
    /\ pf.pc = "loop"
    /\ pf.i > Len(pf.map_blk.block_info)
    /\ pf' = [pf EXCEPT !.pc = "done", !.ret = SORFile(pf.map_blk, pf.loc)]
    /\ UNCHANGED <<data, ex, pr, co, an, en>>

Next == ParseMap \/ ParseNextEntry \/ ParseReturn

Spec == Init /\ [][Next]_vars

-----------------------------------------------------------------------------
(* Properties of parse_file *)

MapParsed == pf.pc \in {"loop", "raised", "done"} /\ pf.map_blk # None

Directory == pf.map_blk.block_info

\* The computed byte range of directory entry k is invalid.
RangeInvalid(k) ==
    ~IsOk(extract_block_data(data, Directory[k].identifier, pf.map_blk))

TypedTags ==
    {BLOCK_ID_GENPARAMS, BLOCK_ID_SUPPARAMS, BLOCK_ID_FXDPARAMS,
     BLOCK_ID_KEYEVENTS, BLOCK_ID_DATAPTS}

KnownTags == TypedTags \cup {BLOCK_ID_LNKPARAMS, BLOCK_ID_CHECKSUM}

\* The field of the SORFile that a known tag populates.
FieldOf(id, f) ==
    CASE id = BLOCK_ID_GENPARAMS -> f.general_parameters
      [] id = BLOCK_ID_SUPPARAMS -> f.supplier_parameters
      [] id = BLOCK_ID_FXDPARAMS -> f.fixed_parameters
      [] id = BLOCK_ID_KEYEVENTS -> f.key_events
      [] id = BLOCK_ID_DATAPTS   -> f.data_points
      [] id = BLOCK_ID_LNKPARAMS -> f.link_parameters
      [] id = BLOCK_ID_CHECKSUM  -> None

\* The entries among the first n whose identifier is no known tag.
UnknownUpTo(n) == {k \in 1..n : Directory[k].identifier \notin KnownTags}

\* C1 (as claimed): an entry whose computed range is invalid never aborts
\* the decode, whatever its identifier: parse_file does not raise at that
\* entry, and in the SORFile it returns the block is absent.
C1_LeniencyLaw ==
    MapParsed =>
        \A k \in 1..Len(Directory) :
            RangeInvalid(k) =>
                /\ ~(pf.pc = "raised" /\ pf.i = k)
                /\ (pf.pc = "done" /\ Directory[k].identifier \in KnownTags)
                       => FieldOf(Directory[k].identifier, pf.ret) = None

\* The bytes of the Map header, read off the buffer: tag, NUL, and a
\* block_count (signed, bytes 10 and 11) of at least 1.
MapHeaderWellFormed ==
    /\ Len(data) >= MapHeaderLen
    /\ SubSeq(data, 1, 4) = <<77, 97, 112, 0>>
    /\ data[12] < 128
    /\ data[11] + 256 * data[12] >= 1

\* The decoder dispatched for entry k fails on the bytes extracted for it.
DecoderFails(k) ==
    ~IsOk(ParseEntry(data, pf.map_blk, Directory[k], NoBlocks))

\* C2: parse_file returns a complete SORFile or raises ParseError and
\* returns nothing.  It raises when the Map is malformed and when a
\* dispatched decoder fails, and then no later entry is decoded: every block
\* held by the locals comes from an entry before the failing one.
C2_CompleteOrParseError ==
    /\ pf.pc # "done" => pf.ret = None
    /\ pf.pc = "raised" => pf.exc = "ParseError"
    /\ pf.pc \in {"loop", "raised", "done"} /\ ~MapHeaderWellFormed
           => pf.pc = "raised" /\ pf.map_blk = None
    /\ MapParsed =>
           /\ Len(Directory) = pf.map_blk.block_count - 1
           /\ \A k \in 1..Len(Directory) :
                  DecoderFails(k) => pf.pc # "done" /\ pf.i <= k
           /\ pf.pc = "raised" =>
                  /\ pf.i \in 1..Len(Directory) /\ DecoderFails(pf.i)
                  /\ \A id \in TypedTags :
                         FieldOf(id, pf.loc) # None =>
                             \E j \in 1..(pf.i - 1) : Directory[j].identifier = id
                  /\ Len(pf.loc.proprietary_blocks)
                         <= Cardinality(UnknownUpTo(pf.i - 1))
           /\ pf.pc = "done" =>
                  /\ pf.ret.map = pf.map_blk
                  /\ \A k \in 1..Len(Directory) :
                         Directory[k].identifier \in TypedTags =>
                             FieldOf(Directory[k].identifier, pf.ret) # None
                  /\ Len(pf.ret.proprietary_blocks)
                         = Cardinality(UnknownUpTo(Len(Directory)))

\* A decode that raised at its second entry, after decoding the first.
C2_Witness ==
    /\ pf.pc = "raised" /\ pf.map_blk # None
    /\ pf.i = 2 /\ pf.loc # NoBlocks
    /\ pf.exc = "ParseError" /\ pf.ret = None

-----------------------------------------------------------------------------
(* Specification SpecExtract: extract_block_data on a directory and a      *)
(* buffer                                                                  *)

\* The most entries of a directory, and the longest buffer.
MaxDirEntries == 3

MaxBufLen == 6

\* Identifiers of directory entries, and one that no directory lists.
IdA == <<65>>

IdB == <<66>>

IdMissing == <<90>>

\* Declared sizes (an i32 read from the file may be negative), and declared
\* block_size values.
SizeValues == {-1, 0, 2, 3}

BlockSizeValues == {-1, 0, 2}

DirEntries ==
    [identifier : {IdA, IdB}, revision_number : {1}, size : SizeValues]

ExtractMaps ==
    [revision_number : {200}, block_size : BlockSizeValues,
     block_count : {1}, block_info : SeqsUpTo(DirEntries, MaxDirEntries)]

\* A buffer of n bytes, each telling its place.
Ramp(n) == [k \in 1..n |-> k]

InitExtract ==
    /\ data \in {Ramp(n) : n \in 0..MaxBufLen}
    /\ ex \in [pc : {"ready"}, map_blk : ExtractMaps, header : {<<>>},
               out : {None}]
    /\ pf = Idle /\ pr = Idle /\ co = Idle /\ an = Idle /\ en = Idle

\* A call of extract_block_data(data, header, map_blk).
Extract(header) ==
    /\ ex.pc = "ready"
    /\ ex' = [ex EXCEPT !.pc = "done", !.header = header,
                        !.out = extract_block_data(data, header, ex.map_blk)]
    /\ UNCHANGED <<data, pf, pr, co, an, en>>

NextExtract == \E header \in {IdA, IdB, IdMissing} : Extract(header)

SpecExtract == InitExtract /\ [][NextExtract]_vars

\* The sum of the declared sizes of the first n entries.
RECURSIVE SumSizes(_, _)
SumSizes(block_info, n) ==
    IF n = 0 THEN 0 ELSE SumSizes(block_info, n - 1) + block_info[n].size

\* Entry k is the entry the request names: the first with that identifier.
Requested(k) ==
    /\ k \in 1..Len(ex.map_blk.block_info)
    /\ ex.map_blk.block_info[k].identifier = ex.header
    /\ \A j \in 1..(k - 1) : ex.map_blk.block_info[j].identifier # ex.header

\* Where the range of entry k starts: block_size plus the preceding sizes.
StartOf(k) == ex.map_blk.block_size + SumSizes(ex.map_blk.block_info, k - 1)

DistinctIdentifiers ==
    \A j, k \in 1..Len(ex.map_blk.block_info) :
        ex.map_blk.block_info[j].identifier = ex.map_blk.block_info[k].identifier
            => j = k

\* The buffer holds every entry: sizes and block_size are not negative and
\* the last range ends within the buffer.
HoldsAll ==
    /\ ex.map_blk.block_size >= 0
    /\ \A j \in 1..Len(ex.map_blk.block_info) : ex.map_blk.block_info[j].size >= 0
    /\ StartOf(Len(ex.map_blk.block_info) + 1) <= Len(data)

C4_OutOfRangeFails ==
    ex.pc = "done" =>
        \A k \in 1..Len(ex.map_blk.block_info) :
            ( /\ Requested(k)
              /\ \/ StartOf(k) > Len(data)
                 \/ StartOf(k) + ex.map_blk.block_info[k].size > Len(data)
                 \/ \E j \in 1..(k - 1) : ex.map_blk.block_info[j].size < 0 )
            => ex.out.st = "ParseError" /\ ex.out.val = None

\* A request for the second or a later entry of a directory without negative
\* sizes has failed because its range starts within the buffer and ends
\* beyond it.
C4_Witness ==
    /\ ex.pc = "done" /\ ex.out.st = "ParseError"
    /\ ex.map_blk.block_size >= 0
    /\ \A j \in 1..Len(ex.map_blk.block_info) : ex.map_blk.block_info[j].size >= 0
    /\ \E k \in 2..Len(ex.map_blk.block_info) :
           /\ Requested(k)
           /\ StartOf(k) <= Len(data)
           /\ StartOf(k) + ex.map_blk.block_info[k].size > Len(data)

-----------------------------------------------------------------------------
(* Specification SpecPrim: one primitive read on a buffer                  *)

\* The longest buffer.
MaxPrimLen == 5

\* Bytes of the buffers: NUL, "A", and the two bytes of U+00E9 (each of
\* them alone is ill-formed; 195 as a top byte makes an integer negative).
PrimBytes == {0, 65, 169, 195}

\* Widths asked of fixed_length_str, and headers asked of block_header
\* ("A" and "A" followed by U+00E9).
FieldWidths == {0, 2, 3}

Headers == {<<65>>, <<65, 233>>}

InitPrim ==
    /\ data \in SeqsUpTo(PrimBytes, MaxPrimLen)
    /\ pr = [pc |-> "ready", op |-> "none", offset |-> 0, arg |-> None,
             out |-> None]
    /\ pf = Idle /\ ex = Idle /\ co = Idle /\ an = Idle /\ en = Idle

Read(op, offset, arg, out) ==
    /\ pr.pc = "ready"
    /\ pr' = [pc |-> "done", op |-> op, offset |-> offset, arg |-> arg,
              out |-> out]
    /\ UNCHANGED <<data, pf, ex, co, an, en>>

\* Offsets from the start of the buffer to one past its end.
Offsets == 0..(Len(data) + 1)

ReadI16 == \E o \in Offsets : Read("parse_le_i16", o, 2, parse_le_i16(data, o))

ReadU16 == \E o \in Offsets : Read("parse_le_u16", o, 2, parse_le_u16(data, o))

ReadI32 == \E o \in Offsets : Read("parse_le_i32", o, 4, parse_le_i32(data, o))

ReadU32 == \E o \in Offsets : Read("parse_le_u32", o, 4, parse_le_u32(data, o))

ReadFixedStr ==
    \E o \in Offsets, n \in FieldWidths :
        Read("fixed_length_str", o, n, fixed_length_str(data, o, n))

ReadNulStr ==
    \E o \in Offsets :
        Read("null_terminated_str", o, None, null_terminated_str(data, o))

ReadHeader ==
    \E o \in Offsets, h \in Headers :
        Read("block_header", o, h, block_header(data, o, h))

NextPrim ==
    \/ ReadI16 \/ ReadU16 \/ ReadI32 \/ ReadU32
    \/ ReadFixedStr \/ ReadNulStr \/ ReadHeader

SpecPrim == InitPrim /\ [][NextPrim]_vars

\* The bytes left from the offset of the read.
Remaining == Len(data) - pr.offset

\* Fewer bytes remain than the field needs: its width for an integer and a
\* fixed string, the header and its NUL for a header, and for a terminated
\* string as many as reach a NUL, which none of the remaining bytes is.
TooShort ==
    CASE pr.op \in {"parse_le_i16", "parse_le_u16", "parse_le_i32",
                    "parse_le_u32", "fixed_length_str"} ->
             Remaining < pr.arg
      [] pr.op = "block_header" -> Remaining < Len(Utf8Encode(pr.arg)) + 1
      [] pr.op = "null_terminated_str" ->
             \A k \in (pr.offset + 1)..Len(data) : data[k] # 0

\* The bytes of the field that holds the value read, in full.
FieldBytes ==
    CASE pr.op \in {"parse_le_i16", "parse_le_u16"} -> LeBytes(pr.out.val, 2)
      [] pr.op = "parse_le_i32" -> LeBytes(pr.out.val, 4)
      [] pr.op = "parse_le_u32" ->
             LeBytes(pr.out.val.lo, 2) \o LeBytes(pr.out.val.hi, 2)
      [] pr.op = "fixed_length_str" -> Utf8Encode(pr.out.val)
      [] pr.op = "null_terminated_str" -> Utf8Encode(pr.out.val) \o <<0>>
      [] pr.op = "block_header" -> Utf8Encode(pr.arg) \o <<0>>

\* C5: a read at an offset where fewer bytes remain than the field needs
\* fails with ParseError, and no read fails otherwise than with ParseError;
\* a read that succeeds returns an offset within the buffer, and the bytes
\* between the offset it was given and the one it returns, all of them in
\* the buffer, are the whole field of the value it returns.
C5_TruncationLaw ==
    pr.pc = "done" =>
        /\ pr.out.st \in {"ok", "ParseError"}
        /\ TooShort => pr.out.st = "ParseError"
        /\ IsOk(pr.out) =>
               /\ pr.offset <= pr.out.off /\ pr.out.off <= Len(data)
               /\ FieldBytes = SubSeq(data, pr.offset + 1, pr.out.off)
               /\ pr.op = "fixed_length_str" =>
                      pr.out.off - pr.offset = pr.arg

\* A 32-bit read asked where bytes remain, but fewer than four, has failed.
C5_Witness ==
    /\ pr.pc = "done" /\ pr.op = "parse_le_i32"
    /\ Remaining > 0 /\ Remaining < 4
    /\ pr.out.st = "ParseError"

-----------------------------------------------------------------------------
(* otdr_algorithm.py, coallesce_results; specification SpecCoalesce        *)

\* The distance from the start of an interval beyond which a hit opens the
\* next interval.
MergeThreshold == 75

\* The hit is compared with the end of the current interval.
Splits_end(hit, curr_interval) == hit - curr_interval[2] > MergeThreshold

\* A hit exactly the threshold beyond the start closes the interval too.
Splits_atleast(hit, curr_interval) == hit - curr_interval[1] >= MergeThreshold

\* The test of the loop: the hit closes the current interval.
Splits(hit, curr_interval) == hit - curr_interval[1] > MergeThreshold

\* The longest list of hits, and the longest that is not in ascending order
\* (plot_and_detect collects its hits in ascending order).
MaxHits == 5

MaxUnsorted == 3

HitValues == {10, 12, 14, 85, 86, 100, 102}

IsSorted(s) == \A k \in 1..(Len(s) - 1) : s[k] <= s[k + 1]

HitLists ==
    {s \in SeqsUpTo(HitValues, MaxHits) : Len(s) <= MaxUnsorted \/ IsSorted(s)}

InitCoalesce ==
    /\ co \in [pc : {"ready"}, detected_fiber_issues : HitLists, i : {0},
               curr_interval : {None}, intervaled_results : {<<>>},
               ret : {None}]
    /\ data = <<>>
    /\ pf = Idle /\ ex = Idle /\ pr = Idle /\ an = Idle /\ en = Idle

\* The statements before the loop: the early return, or the first interval.
CoStart ==
    /\ co.pc = "ready"
    /\ co' = IF Len(co.detected_fiber_issues) = 0
             THEN [co EXCEPT !.pc = "done", !.ret = <<>>]
             ELSE [co EXCEPT !.pc = "loop", !.i = 1,
                             !.curr_interval =
                                 <<co.detected_fiber_issues[1],
                                   co.detected_fiber_issues[1]>>]
    /\ UNCHANGED <<data, pf, ex, pr, an, en>>

\* One turn of the loop, for the hit at (0-based) index i.
CoTurn(hit) ==
    IF Splits(hit, co.curr_interval)
    THEN [co EXCEPT !.i = co.i + 1,
                    !.intervaled_results = Append(@, co.curr_interval),
                    !.curr_interval = <<hit, hit>>]
    ELSE [co EXCEPT !.i = co.i + 1, !.curr_interval[2] = hit]

CoStep ==
    /\ co.pc = "loop"
    /\ co.i < Len(co.detected_fiber_issues)
    /\ co' = CoTurn(co.detected_fiber_issues[co.i + 1])
    /\ UNCHANGED <<data, pf, ex, pr, an, en>>

\* The statements after the loop.
CoFinish ==
    /\ co.pc = "loop"
    /\ co.i >= Len(co.detected_fiber_issues)
    /\ co' = [co EXCEPT !.pc = "done",
                        !.ret = Append(co.intervaled_results,
                                       co.curr_interval)]
    /\ UNCHANGED <<data, pf, ex, pr, an, en>>

NextCoalesce == CoStart \/ CoStep \/ CoFinish

SpecCoalesce == InitCoalesce /\ [][NextCoalesce]_vars

\* The position, in starts, at which the interval of position p began.
StartBefore(starts, p) ==
    CHOOSE q \in starts : q <= p /\ \A x \in starts : x <= p => x <= q

\* The position that ends the interval begun at q.
EndAfter(starts, q, n) ==
    CHOOSE e \in q..n :
        /\ \A x \in starts : x <= q \/ x > e
        /\ e = n \/ e + 1 \in starts

\* starts are the positions of the hits at which the law opens an interval:
\* the first, and every later one that lies more than 75 beyond the hit
\* that opened the interval current before it.
LawfulStarts(hits, starts) ==
    /\ 1 \in starts
    /\ \A p \in 2..Len(hits) :
           p \in starts <=>
               hits[p] - hits[StartBefore(starts, p - 1)] > MergeThreshold

\* ret lists, in order, the intervals that starts opens: the hit that opened
\* each and the last hit before the next was opened.
IntervalsOf(hits, starts, ret) ==
    /\ Len(ret) = Cardinality(starts)
    /\ \A q \in starts :
           ret[Cardinality({x \in starts : x <= q})]
               = <<hits[q], hits[EndAfter(starts, q, Len(hits))]>>

\* C7: on no hits the result is empty; otherwise the result lists the
\* intervals of the law: an interval opens at the first hit and at every hit
\* more than 75 beyond the START of the interval current before it, and
\* ends at the last hit before the next opens.  [10,12,14,100,102] gives
\* [[10,14],[100,102]], and a hit exactly 75 beyond the start is merged.
C7_CoalesceLaw ==
    co.pc = "done" =>
        /\ co.detected_fiber_issues = <<>> => co.ret = <<>>
        /\ co.detected_fiber_issues # <<>> =>
               \E starts \in SUBSET (1..Len(co.detected_fiber_issues)) :
                   /\ LawfulStarts(co.detected_fiber_issues, starts)
                   /\ IntervalsOf(co.detected_fiber_issues, starts, co.ret)
        /\ co.detected_fiber_issues = <<10, 12, 14, 100, 102>> =>
               co.ret = <<(<<10, 14>>), (<<100, 102>>)>>
        /\ co.detected_fiber_issues = <<10, 85>> => co.ret = <<(<<10, 85>>)>>

\* A hit 75 beyond the start has been merged and the next, 76 beyond the
\* start and 1 beyond the end, has opened an interval.
C7_Witness ==
    /\ co.pc = "done"
    /\ co.detected_fiber_issues = <<10, 85, 86, 102>>
    /\ co.ret = <<(<<10, 85>>), (<<86, 102>>)>>

-----------------------------------------------------------------------------
(* otdr_algorithm.py, plot_and_detect; specification SpecAnalyze           *)
(*                                                                         *)
(* Distances are whole metres: the speed of light is rounded to 3 * 10^8,  *)
(* and the inputs are chosen so that the divisions are exact.  Slopes and  *)
(* curvatures are in thousandths; the values that smoothing and the two    *)
(* gradients give are any of a few on either side of the thresholds, or    *)
(* NaN throughout when the power values are not finite (scale factor 0).   *)

\* coallesce_results as a function of its argument.
RECURSIVE CoLoop(_, _, _, _)
CoLoop(hits, i, curr_interval, intervaled_results) ==
    IF i >= Len(hits) THEN Append(intervaled_results, curr_interval)
    ELSE IF Splits(hits[i + 1], curr_interval)
    THEN CoLoop(hits, i + 1, <<hits[i + 1], hits[i + 1]>>,
                Append(intervaled_results, curr_interval))
    ELSE CoLoop(hits, i + 1, <<curr_interval[1], hits[i + 1]>>,
                intervaled_results)

coallesce_results(hits) ==
    IF Len(hits) = 0 THEN <<>>
    ELSE CoLoop(hits, 1, <<hits[1], hits[1]>>, <<>>)

MIN_SPACING == 10

ShortScanLimit == 8000

ShortScanCap == 8500

\* 0.005 and -.005, in thousandths.
FiberIssueSlope == 5

BackReflectionSlope == -5

\* (data_spacing[0] / 1e10 / 10000.0) * (speed_of_light / (group_index /
\* 100000.0)), for group_index # 0.
metres_per_data_spacing(group_index, data_spacing0) ==
    (3 * data_spacing0) \div (10 * group_index)

\* np.arange(0, step * n, step)[:n] for step # 0: n values from 0 on, which
\* descend when the step is negative.
Arange(step, n) == [k \in 1..n |-> (k - 1) * step]

\* Lines 37-51, up to the distances of the samples.  zero_step is the
\* exception np.arange raises for a step of 0.
Prepare(sor, zero_step) ==
    IF sor.fixed_parameters = None THEN Raise("AttributeError")
    ELSE IF sor.fixed_parameters.group_index = 0
    THEN Raise("ZeroDivisionError")
    ELSE IF sor.fixed_parameters.data_spacing = <<>> THEN Raise("IndexError")
    ELSE IF sor.data_points = None THEN Raise("AttributeError")
    ELSE IF sor.data_points.scale_factors = <<>> THEN Raise("IndexError")
    ELSE IF metres_per_data_spacing(sor.fixed_parameters.group_index,
                                    sor.fixed_parameters.data_spacing[1]) = 0
    THEN Raise(zero_step)
    ELSE Ok(Arange(metres_per_data_spacing(
                       sor.fixed_parameters.group_index,
                       sor.fixed_parameters.data_spacing[1]),
                   Len(sor.data_points.scale_factors[1].data)), 0)

\* The requested maximum is the cap whatever the scan type.
WindowCap_requested(scan_type, fiber_distance) == fiber_distance

\* The distance up to which samples are kept (line 52).
WindowCap(scan_type, fiber_distance) ==
    IF scan_type = "short" /\ fiber_distance > ShortScanLimit
    THEN ShortScanCap
    ELSE fiber_distance

\* spacing[valid_indices].
Filtered(spacing, cap) == SelectSeq(spacing, LAMBDA d : d <= cap)

\* np.searchsorted(a, v): the bisection of numpy, side 'left', which
\* takes a to be ascending.
RECURSIVE Bisect(_, _, _, _)
BisectAt(a, v, lo, hi, mid) ==
    IF a[mid + 1] < v THEN Bisect(a, v, mid + 1, hi) ELSE Bisect(a, v, lo, mid)

Bisect(a, v, lo, hi) ==
    IF lo >= hi THEN lo ELSE BisectAt(a, v, lo, hi, lo + ((hi - lo) \div 2))

searchsorted(a, v) == Bisect(a, v, 0, Len(a))

\* The most samples of a trace.
MaxSamples == 4

\* What the analysis reads of a decoded file.  A group index of 1 and data
\* spacings of 10, 10000 and 14000 put the samples 3, 3000 and 4200 metres
\* apart; a negative group index makes the distances descend.
FixedParametersValues ==
    {None} \cup [group_index : {-1, 0, 1},
                 data_spacing : {<<>>, <<0>>, <<10>>, <<10000>>, <<14000>>},
                 front_panel_offset : {0}]

GeneralParametersValues == {None, [user_offset |-> 0]}

DataPointsValues ==
    {None, [scale_factors |-> <<>>]}
    \cup {[scale_factors |-> <<[scale_factor |-> sf,
                                data |-> [k \in 1..n |-> 65535 - k]]>>] :
              sf \in {0, 1000}, n \in 0..MaxSamples}

SORFiles ==
    [fixed_parameters : FixedParametersValues,
     general_parameters : GeneralParametersValues,
     data_points : DataPointsValues]

\* The callers pass a start panel of 50; a distance is not negative.
StartPanels == {0, 50}

FiberDistances == {6000, 8000, 8001, 25000}

ScanTypes == {"short", "long"}

\* np.arange with a step of 0 raises one of these.
ZeroStepErrors == {"ZeroDivisionError", "ValueError"}

\* A slope or a curvature: a number of thousandths, or NaN.
Num(v) == [nan |-> FALSE, v |-> v]

NaN == [nan |-> TRUE, v |-> 0]

SlopeValues == {Num(-6), Num(-5), Num(4), Num(5)}

CurveValues == {Num(-1), Num(0)}

\* x >= y and x < y as floats compare: both false of NaN.
GreaterEq(x, y) == ~x.nan /\ x.v >= y

Less(x, y) == ~x.nan /\ x.v < y

InitAnalyze ==
    /\ an \in [pc : {"start"}, sor_file : SORFiles,
               start_panel : StartPanels, fiber_distance : FiberDistances,
               scan_type : ScanTypes, finite : {TRUE}, spacing : {<<>>},
               spacing_filtered : {<<>>}, spacing_trimmed : {<<>>},
               i : {0}, last_detected_point : {0}, fiber_issues : {<<>>},
               back_reflections : {<<>>}, exc : {"none"}, ret : {None}]
    /\ data = <<>>
    /\ pf = Idle /\ ex = Idle /\ pr = Idle /\ co = Idle /\ en = Idle

\* The exception e leaves the try block.
Except(a, e) == [a EXCEPT !.pc = "except", !.exc = e]

AfterPrepare(a, r) ==
    IF IsOk(r)
    THEN [a EXCEPT !.pc = "spaced", !.spacing = r.val,
                   !.finite =
                       a.sor_file.data_points.scale_factors[1].scale_factor
                           # 0]
    ELSE Except(a, r.st)

\* Lines 37-51.
AnPrepare ==
    /\ an.pc = "start"
    /\ \E zero_step \in ZeroStepErrors :
           an' = AfterPrepare(an, Prepare(an.sor_file, zero_step))
    /\ UNCHANGED <<data, pf, ex, pr, co, en>>

\* spacing_filtered[start_idx:].
Trimmed(spacing_filtered, start_panel) ==
    PySlice(spacing_filtered, searchsorted(spacing_filtered, start_panel),
            Len(spacing_filtered))

\* Lines 52-67: the window, the offsets (general_parameters is read at
\* line 58), the start index and the trimming.
Window(a) ==
    IF a.sor_file.general_parameters = None
    THEN Except([a EXCEPT !.spacing_filtered =
                     Filtered(a.spacing,
                              WindowCap(a.scan_type, a.fiber_distance))],
                "AttributeError")
    ELSE [a EXCEPT !.pc = "trimmed",
                   !.spacing_filtered =
                       Filtered(a.spacing,
                                WindowCap(a.scan_type, a.fiber_distance)),
                   !.spacing_trimmed =
                       Trimmed(Filtered(a.spacing,
                                        WindowCap(a.scan_type,
                                                  a.fiber_distance)),
                               a.start_panel)]

AnWindow ==
    /\ an.pc = "spaced"
    /\ an' = Window(an)
    /\ UNCHANGED <<data, pf, ex, pr, co, en>>

\* Lines 71-80: smoothing and the two gradients (np.gradient raises
\* ValueError on fewer than two samples), and the statements before the
\* loop.
Derive(a) ==
    IF Len(a.spacing_trimmed) < 2 THEN Except(a, "ValueError")
    ELSE [a EXCEPT !.pc = "loop", !.i = 1,
                   !.last_detected_point = -MIN_SPACING]

AnDerive ==
    /\ an.pc = "trimmed"
    /\ an' = Derive(an)
    /\ UNCHANGED <<data, pf, ex, pr, co, en>>

\* The body of the loop for the sample at (0-based) index a.i, at distance
\* d, with slope drop_amount and curvature curve.
Classify(a, d, drop_amount, curve) ==
    IF /\ GreaterEq(drop_amount, FiberIssueSlope)
       /\ d - a.last_detected_point >= MIN_SPACING
    THEN [a EXCEPT !.i = a.i + 1, !.fiber_issues = Append(@, d),
                   !.last_detected_point = d]
    ELSE IF Less(drop_amount, BackReflectionSlope) /\ Less(curve, 0)
    THEN [a EXCEPT !.i = a.i + 1, !.back_reflections = Append(@, d)]
    ELSE [a EXCEPT !.i = a.i + 1]

\* What smoothing and the gradients can give.
Slopes(finite) == IF finite THEN SlopeValues ELSE {NaN}

Curves(finite) == IF finite THEN CurveValues ELSE {NaN}

\* Lines 82-92: one turn of the loop.
AnClassify ==
    /\ an.pc = "loop"
    /\ an.i < Len(an.spacing_trimmed)
    /\ \E drop_amount \in Slopes(an.finite), curve \in Curves(an.finite) :
           an' = Classify(an, an.spacing_trimmed[an.i + 1], drop_amount, curve)
    /\ UNCHANGED <<data, pf, ex, pr, co, en>>

\* The text of the logs, as the two lists it shows.
Logs(merged_back_reflections, merged_fiber_issues) ==
    [back_reflections |-> merged_back_reflections,
     fiber_issues |-> merged_fiber_issues]

\* Lines 97-101.
AnReturn ==
    /\ an.pc = "loop"
    /\ an.i >= Len(an.spacing_trimmed)
    /\ an' = [an EXCEPT !.pc = "done",
                        !.ret = [flag |-> TRUE,
                                 info |-> [logs |->
                                     Logs(coallesce_results(an.back_reflections),
                                          coallesce_results(an.fiber_issues))]]]
    /\ UNCHANGED <<data, pf, ex, pr, co, en>>

\* Only what the analysis expects of an incomplete file is caught.
Catches_expected(e) == e \in {"AttributeError", "IndexError"}

\* "except Exception": every exception the steps raise derives from it.
Catches(e) ==
    e \in {"AttributeError", "IndexError", "ZeroDivisionError", "ValueError"}

\* Lines 102-104: the handler, or the exception leaving plot_and_detect.
AnExcept ==
    /\ an.pc = "except"
    /\ an' = IF Catches(an.exc)
             THEN [an EXCEPT !.pc = "done",
                             !.ret = [flag |-> FALSE,
                                      info |-> [error |-> an.exc]]]
             ELSE [an EXCEPT !.pc = "escaped"]
    /\ UNCHANGED <<data, pf, ex, pr, co, en>>

NextAnalyze ==
    \/ AnPrepare \/ AnWindow \/ AnDerive \/ AnClassify \/ AnReturn
    \/ AnExcept

SpecAnalyze == InitAnalyze /\ [][NextAnalyze]_vars

\* The analysis window has been cut and trimmed.
Windowed == an.pc \in {"trimmed", "loop", "done"} /\ an.exc = "none"

\* C8: for a "short" scan and a requested maximum beyond 8000 every sample
\* kept has a distance of at most 8500, and in every other case of at most
\* the requested maximum; the samples that reach smoothing and
\* classification, and so the hits recorded, are not before start_panel.
C8_ScanWindowLaw ==
    Windowed =>
        /\ \A k \in 1..Len(an.spacing_filtered) :
               IF an.scan_type = "short" /\ an.fiber_distance > 8000
               THEN an.spacing_filtered[k] <= 8500
               ELSE an.spacing_filtered[k] <= an.fiber_distance
        /\ \A k \in 1..Len(an.spacing_trimmed) :
               /\ an.spacing_trimmed[k] >= an.start_panel
               /\ \E j \in 1..Len(an.spacing_filtered) :
                      an.spacing_filtered[j] = an.spacing_trimmed[k]
        /\ \A k \in 1..Len(an.fiber_issues) :
               \E j \in 1..Len(an.spacing_trimmed) :
                   an.spacing_trimmed[j] = an.fiber_issues[k]
        /\ \A k \in 1..Len(an.back_reflections) :
               \E j \in 1..Len(an.spacing_trimmed) :
                   an.spacing_trimmed[j] = an.back_reflections[k]

\* A short scan with a requested maximum of 25000 has been analysed: the
\* sample at 0, before the start panel, and the samples beyond 8500 were
\* dropped, and the sample at 8400 was kept.
C8_Witness ==
    /\ an.pc = "done" /\ an.ret.flag
    /\ an.scan_type = "short" /\ an.fiber_distance = 25000
    /\ an.start_panel = 50
    /\ an.spacing = <<0, 4200, 8400, 12600>>
    /\ an.spacing_trimmed = <<4200, 8400>>

\* What the file lacks makes a step fail.
Incomplete(sor) ==
    \/ sor.fixed_parameters = None
    \/ sor.general_parameters = None
    \/ sor.data_points = None
    \/ sor.fixed_parameters.data_spacing = <<>>
    \/ sor.fixed_parameters.group_index = 0
    \/ sor.data_points.scale_factors = <<>>

\* C9: no exception leaves plot_and_detect.  It returns (False, info) with
\* the cause under 'error' when a step failed, as one does for every file
\* that lacks fixed_parameters, general_parameters or data_points, has an
\* empty data_spacing or scale_factors list or a group_index of 0; and
\* (True, info) with the coalesced ranges under 'logs' when none failed.
C9_NoExceptionEscapes ==
    /\ an.pc # "escaped"
    /\ an.pc = "done" =>
           /\ an.ret.flag \in BOOLEAN
           /\ ~an.ret.flag <=> an.exc # "none"
           /\ ~an.ret.flag =>
                  /\ DOMAIN an.ret.info = {"error"}
                  /\ an.ret.info.error = an.exc
           /\ an.ret.flag =>
                  /\ DOMAIN an.ret.info = {"logs"}
                  /\ an.ret.info.logs =
                         Logs(coallesce_results(an.back_reflections),
                              coallesce_results(an.fiber_issues))
           /\ Incomplete(an.sor_file) => ~an.ret.flag

\* A file without general_parameters has passed the first steps and has
\* been answered with (False, {'error': ...}).
C9_Witness ==
    /\ an.pc = "done"
    /\ an.sor_file.general_parameters = None
    /\ Len(an.spacing) > 0
    /\ ~an.ret.flag /\ an.ret.info.error = "AttributeError"

-----------------------------------------------------------------------------
(* otdr_parser.py, the encode helpers and add_block; specification         *)
(* SpecEncode: a sequence of add_block calls on one buffer and one new Map *)

\* A surrogate has no UTF-8 encoding.
IsSurrogate(cp) == cp >= 55296 /\ cp <= 57343

\* s.encode('utf-8'), which may raise.
StrEncode(s) ==
    IF \E k \in 1..Len(s) : IsSurrogate(s[k]) THEN Raise("UnicodeEncodeError")
    ELSE Ok(Utf8Encode(s), 0)

\* The terminator not written.
encode_null_terminated_str_bare(b, s) ==
    Bind(StrEncode(s), LAMBDA e : Ok(b \o e.val, 0))

\* Each encode helper gives the buffer as the call leaves it, or the
\* exception it raises (the buffer is then as before the call).
encode_null_terminated_str(b, s) ==
    Bind(StrEncode(s), LAMBDA e : Ok(b \o e.val \o <<0>>, 0))

\* The loop of encode_fixed_length_str from character k on: the bytes of
\* bytes_list, or the exception.
\* No character is refused: each is written as UTF-8 encodes it.
FixedBytes_lenient(s, k) == StrEncode(SubSeq(s, k, Len(s)))

RECURSIVE FixedBytes(_, _)
FixedBytes(s, k) ==
    IF k > Len(s) THEN Ok(<<>>, 0)
    ELSE IF IsSurrogate(s[k]) THEN Raise("UnicodeEncodeError")
    ELSE IF Len(Utf8EncodeChar(s[k])) # 1 THEN Raise("Exception")
    ELSE Bind(FixedBytes(s, k + 1),
              LAMBDA rest : Ok(Utf8EncodeChar(s[k]) \o rest.val, 0))

\* length takes no part in what is written.
encode_fixed_length_str(b, s, length) ==
    Bind(FixedBytes(s, 1), LAMBDA l : Ok(b \o l.val, 0))

\* struct.pack('<h', val) and struct.pack('<i', val).
encode_le_i16(b, val) ==
    IF val < -32768 \/ val > 32767 THEN Raise("struct.error")
    ELSE Ok(b \o LeBytes(val, 2), 0)

\* Every integer of the model is within the range of '<i'.
encode_le_i32(b, val) == Ok(b \o LeBytes(val, 4), 0)

\* The loop of add_block over m.block_info from entry k on: found.
RECURSIVE FindBlockInfo(_, _, _)
FindBlockInfo(block_info, block_id, k) ==
    IF k > Len(block_info) THEN None
    ELSE IF block_info[k].identifier = block_id THEN block_info[k]
    ELSE FindBlockInfo(block_info, block_id, k + 1)

\* What a call of add_block leaves: how it ended, b and nm.
Added(st, b, nm) == [st |-> st, b |-> b, nm |-> nm]

\* The body is written to the buffer before the entry is looked for.
AddFound_early(b, nm, block_bytes, found, block_id) ==
    IF found = None THEN Added("Exception", b \o block_bytes, nm)
    ELSE Added("ok", b \o block_bytes,
               [nm EXCEPT !.block_info =
                              Append(@, [identifier |-> block_id,
                                         revision_number |->
                                             found.revision_number,
                                         size |-> Len(block_bytes)]),
                          !.block_count = @ + 1,
                          !.block_size = @ + (Len(block_id) + 1 + 2 + 4)])

\* The entry takes the size the original Map declares.
AddFound_declared(b, nm, block_bytes, found, block_id) ==
    IF found = None THEN Added("Exception", b, nm)
    ELSE Added("ok", b \o block_bytes,
               [nm EXCEPT !.block_info =
                              Append(@, [identifier |-> block_id,
                                         revision_number |->
                                             found.revision_number,
                                         size |-> found.size]),
                          !.block_count = @ + 1,
                          !.block_size = @ + (Len(block_id) + 1 + 2 + 4)])

\* add_block after its loop.
AddFound(b, nm, block_bytes, found, block_id) ==
    IF found = None THEN Added("Exception", b, nm)
    ELSE Added("ok", b \o block_bytes,
               [nm EXCEPT !.block_info =
                              Append(@, [identifier |-> block_id,
                                         revision_number |->
                                             found.revision_number,
                                         size |-> Len(block_bytes)]),
                          !.block_count = @ + 1,
                          !.block_size = @ + (Len(block_id) + 1 + 2 + 4)])

\* An absent block is treated as a present one.
add_block_eager(b, m, nm, block, gen, block_id) ==
    IF ~IsOk(gen) THEN Added("Exception", b, nm)
    ELSE AddFound(b, nm, gen.val,
                  FindBlockInfo(m.block_info, block_id, 1), block_id)

\* gen is the outcome of gen_block_func(): the bytes of the body, or an
\* exception.
add_block(b, m, nm, block, gen, block_id) ==
    IF block = None THEN Added("ok", b, nm)
    ELSE IF ~IsOk(gen) THEN Added("Exception", b, nm)
    ELSE AddFound(b, nm, gen.val,
                  FindBlockInfo(m.block_info, block_id, 1), block_id)

\* The most add_block calls on one buffer.
MaxCalls == 3

\* Entries of the original Map: two identifiers, each with its revision.
OriginalEntries ==
    {[identifier |-> BLOCK_ID_GENPARAMS, revision_number |-> 100, size |-> 0],
     [identifier |-> BLOCK_ID_SUPPARAMS, revision_number |-> 200, size |-> 0]}

OriginalMaps ==
    {[revision_number |-> 200, block_size |-> 0,
      block_count |-> Len(bi) + 1, block_info |-> bi] :
         bi \in SeqsUpTo(OriginalEntries, 2)}

\* The new Map as the caller hands it to the first call.
NewMaps ==
    [revision_number : {200}, block_size : {0, MapHeaderLen},
     block_count : {1}, block_info : {<<>>}]

\* Identifiers asked for; no original Map lists KeyEvents.
AskedIds == {BLOCK_ID_GENPARAMS, BLOCK_ID_SUPPARAMS, BLOCK_ID_KEYEVENTS}

\* A block that is present, and what gen_block_func may give.
SomeBlock == [present |-> TRUE]

GenOutcomes == {Ok(<<>>, 0), Ok(<<7, 8>>, 0), Ok(<<9>>, 0), Raise("Exception")}

InitEncode ==
    /\ \E m \in OriginalMaps, nm \in NewMaps :
           en = [pc |-> "ready", m |-> m, nm |-> nm, b |-> <<>>,
                 calls |-> 0, block |-> None, block_id |-> <<>>,
                 before |-> None, st |-> "none", emitted |-> <<>>,
                 new |-> nm]
    /\ data = <<>>
    /\ pf = Idle /\ ex = Idle /\ pr = Idle /\ co = Idle /\ an = Idle

\* The state after a call that left r.
AfterAdd(e, block, block_id, r) ==
    [e EXCEPT !.pc = IF r.st = "ok" THEN "ready" ELSE "raised",
              !.calls = e.calls + 1, !.block = block, !.block_id = block_id,
              !.before = [b |-> e.b, nm |-> e.nm, m |-> e.m],
              !.st = r.st, !.b = r.b, !.nm = r.nm]

\* The blocks emitted so far, for the record: what a successful call for a
\* present block was asked to emit.
Noted(emitted, block, gen, block_id, r) ==
    IF r.st = "ok" /\ block # None
    THEN Append(emitted, [block_id |-> block_id, body |-> gen.val])
    ELSE emitted

\* A call add_block(b, m, nm, block, gen_block_func, block_id); a call that
\* raises ends the encoding.
AddBlock(block, gen, block_id) ==
    /\ en.pc = "ready"
    /\ en.calls < MaxCalls
    /\ en' = [AfterAdd(en, block, block_id,
                       add_block(en.b, en.m, en.nm, block, gen, block_id))
              EXCEPT !.emitted =
                  Noted(@, block, gen, block_id,
                        add_block(en.b, en.m, en.nm, block, gen, block_id))]
    /\ UNCHANGED <<data, pf, ex, pr, co, an>>

AddPresent ==
    \E gen \in GenOutcomes, block_id \in AskedIds :
        AddBlock(SomeBlock, gen, block_id)

AddAbsent ==
    \E gen \in GenOutcomes, block_id \in AskedIds :
        AddBlock(None, gen, block_id)

NextEncode == AddPresent \/ AddAbsent

SpecEncode == InitEncode /\ [][NextEncode]_vars

\* The original Map has no entry for the identifier of the last call.
NoMatchingEntry ==
    \A k \in 1..Len(en.m.block_info) :
        en.m.block_info[k].identifier # en.block_id

\* C10: a call for a present block whose identifier no entry of the
\* original Map carries raises, and leaves the output buffer and the new
\* Map (block_info, block_count, block_size) as they were before the call.
C10_MissingEntryRaises ==
    (en.calls > 0 /\ en.block # None /\ NoMatchingEntry) =>
        /\ en.pc = "raised" /\ en.st = "Exception"
        /\ en.b = en.before.b
        /\ en.nm.block_info = en.before.nm.block_info
        /\ en.nm.block_count = en.before.nm.block_count
        /\ en.nm.block_size = en.before.nm.block_size

\* After a block was emitted, a call whose body was generated found no
\* entry for its identifier and raised.
C10_Witness ==
    /\ en.calls > 1 /\ en.block # None /\ NoMatchingEntry
    /\ en.pc = "raised"
    /\ Len(en.b) > 0 /\ Len(en.nm.block_info) > 0
    /\ en.block_id = BLOCK_ID_KEYEVENTS

-----------------------------------------------------------------------------
(* The writer path: the typed encoders, the Map encoder and the encode     *)
(* entrypoint, which the repository describes and does not hold.  They are *)
(* laid out as the decoders read, field by field in the same order, over   *)
(* the encode helpers and add_block of otdr_parser.py.                     *)

encode_le_u16(b, val) ==
    IF val < 0 \/ val > 65535 THEN Raise("struct.error")
    ELSE Ok(b \o LeBytes(val, 2), 0)

encode_le_u32(b, val) == Ok(b \o LeBytes(val.lo, 2) \o LeBytes(val.hi, 2), 0)

WriteField(b, kind, v) ==
    CASE kind = "i16" -> encode_le_i16(b, v)
      [] kind = "u16" -> encode_le_u16(b, v)
      [] kind = "i32" -> encode_le_i32(b, v)
      [] kind = "u32" -> encode_le_u32(b, v)
      [] kind = "s2"  -> encode_fixed_length_str(b, v, 2)
      [] kind = "s6"  -> encode_fixed_length_str(b, v, 6)
      [] kind = "nts" -> encode_null_terminated_str(b, v)

\* The writes of layout in order: the buffer after the last, or the first
\* exception.
RECURSIVE WriteFields(_, _, _)
WriteFields(b, layout, values) ==
    IF layout = <<>> THEN Ok(b, 0)
    ELSE Bind(WriteField(b, Head(layout), Head(values)),
              LAMBDA r : WriteFields(r.val, Tail(layout), Tail(values)))

\* A block: its tag, then its fields.
WriteBlock(tag, layout, values) ==
    Bind(encode_null_terminated_str(<<>>, tag),
         LAMBDA h : WriteFields(h.val, layout, values))

encode_general_parameters(g) ==
    WriteBlock(BLOCK_ID_GENPARAMS, GenParamsLayout,
               <<g.language_code, g.cable_id, g.fiber_id, g.fiber_type,
                 g.nominal_wavelength, g.originating_location,
                 g.terminating_location, g.cable_code, g.current_data_flag,
                 g.user_offset, g.user_offset_distance, g.operator,
                 g.comment>>)

encode_supplier_parameters(p) ==
    WriteBlock(BLOCK_ID_SUPPARAMS, SupParamsLayout,
               <<p.supplier_name, p.otdr_mainframe_id, p.otdr_mainframe_sn,
                 p.optical_module_id, p.optical_module_sn,
                 p.software_revision, p.other>>)

encode_fixed_parameters(f) ==
    WriteBlock(BLOCK_ID_FXDPARAMS,
               FxdParamsHead \o Repeat("i16", Len(f.pulse_widths_used))
               \o Repeat("i32", Len(f.data_spacing))
               \o Repeat("i32", Len(f.n_data_points_for_pulse_widths_used))
               \o FxdParamsTail,
               <<f.date_time_stamp, f.units_of_distance, f.actual_wavelength,
                 f.acquisition_offset, f.acquisition_offset_distance,
                 f.total_n_pulse_widths_used>>
               \o f.pulse_widths_used \o f.data_spacing
               \o f.n_data_points_for_pulse_widths_used
               \o <<f.group_index, f.backscatter_coefficient,
                    f.number_of_averages, f.averaging_time,
                    f.acquisition_range, f.acquisition_range_distance,
                    f.front_panel_offset, f.noise_floor_level,
                    f.noise_floor_scale_factor, f.power_offset_first_point,
                    f.loss_threshold, f.reflectance_threshold,
                    f.end_of_fibre_threshold, f.trace_type,
                    f.window_coordinate_1, f.window_coordinate_2,
                    f.window_coordinate_3, f.window_coordinate_4>>)

KeyEventFields(e) ==
    <<e.event_number, e.event_propogation_time,
      e.attenuation_coefficient_lead_in_fiber, e.event_loss,
      e.event_reflectance, e.event_code, e.loss_measurement_technique,
      e.marker_location_1, e.marker_location_2, e.marker_location_3,
      e.marker_location_4, e.marker_location_5, e.comment>>

LastKeyEventFields(e) ==
    KeyEventFields(e)
    \o <<e.end_to_end_loss, e.end_to_end_marker_position_1,
         e.end_to_end_marker_position_2, e.optical_return_loss,
         e.optical_return_loss_marker_position_1,
         e.optical_return_loss_marker_position_2>>

RECURSIVE WriteKeyEvents(_, _, _)
WriteKeyEvents(b, events, k) ==
    IF k > Len(events) THEN Ok(b, 0)
    ELSE Bind(WriteFields(b, KeyEventLayout, KeyEventFields(events[k])),
              LAMBDA r : WriteKeyEvents(r.val, events, k + 1))

encode_key_events(ke) ==
    Bind(WriteBlock(BLOCK_ID_KEYEVENTS, <<"i16">>, <<ke.number_of_key_events>>),
         LAMBDA c :
    Bind(WriteKeyEvents(c.val, ke.key_events, 1),
         LAMBDA ks : WriteFields(ks.val, LastKeyEventLayout,
                                 LastKeyEventFields(ke.last_key_event))))

RECURSIVE WriteScaleFactors(_, _, _)
WriteScaleFactors(b, scale_factors, k) ==
    IF k > Len(scale_factors) THEN Ok(b, 0)
    ELSE Bind(WriteFields(b, <<"i32", "i16">>
                             \o Repeat("u16", Len(scale_factors[k].data)),
                          <<scale_factors[k].n_points,
                            scale_factors[k].scale_factor>>
                          \o scale_factors[k].data),
              LAMBDA r : WriteScaleFactors(r.val, scale_factors, k + 1))

encode_data_points(dp) ==
    Bind(WriteBlock(BLOCK_ID_DATAPTS, <<"i32", "i16">>,
                    <<dp.number_of_data_points,
                      dp.total_number_scale_factors_used>>),
         LAMBDA c : WriteScaleFactors(c.val, dp.scale_factors, 1))

\* The header, then the bytes kept verbatim.
encode_proprietary(pb) ==
    Bind(encode_null_terminated_str(<<>>, pb.header),
         LAMBDA h : Ok(h.val \o pb.data, 0))

RECURSIVE WriteBlockInfos(_, _, _)
WriteBlockInfos(b, block_info, k) ==
    IF k > Len(block_info) THEN Ok(b, 0)
    ELSE Bind(WriteFields(b, <<"nts", "u16", "i32">>,
                          <<block_info[k].identifier,
                            block_info[k].revision_number,
                            block_info[k].size>>),
              LAMBDA r : WriteBlockInfos(r.val, block_info, k + 1))

encode_map(nm) ==
    Bind(WriteBlock(BLOCK_ID_MAP, <<"u16", "i32", "i16">>,
                    <<nm.revision_number, nm.block_size, nm.block_count>>),
         LAMBDA h : WriteBlockInfos(h.val, nm.block_info, 1))

\* A block to emit: the field of the aggregate, its identifier, and what
\* its encoder gives (asked only of a field that is present).
Emit(block, block_id, gen) ==
    [block |-> block, block_id |-> block_id, gen |-> gen]

EmitProprietary(pb) == Emit(pb, pb.header, encode_proprietary(pb))

\* The optional fields in the order of the aggregate, then the proprietary
\* blocks in theirs.  No link parameters encoder is asked: decoding leaves
\* the field absent.
Emitted(x) ==
    << Emit(x.general_parameters, BLOCK_ID_GENPARAMS,
            IF x.general_parameters = None THEN None
            ELSE encode_general_parameters(x.general_parameters)),
       Emit(x.supplier_parameters, BLOCK_ID_SUPPARAMS,
            IF x.supplier_parameters = None THEN None
            ELSE encode_supplier_parameters(x.supplier_parameters)),
       Emit(x.fixed_parameters, BLOCK_ID_FXDPARAMS,
            IF x.fixed_parameters = None THEN None
            ELSE encode_fixed_parameters(x.fixed_parameters)),
       Emit(x.key_events, BLOCK_ID_KEYEVENTS,
            IF x.key_events = None THEN None
            ELSE encode_key_events(x.key_events)),
       Emit(x.link_parameters, BLOCK_ID_LNKPARAMS, None),
       Emit(x.data_points, BLOCK_ID_DATAPTS,
            IF x.data_points = None THEN None
            ELSE encode_data_points(x.data_points)) >>
    \o [k \in 1..Len(x.proprietary_blocks) |->
            EmitProprietary(x.proprietary_blocks[k])]

\* The new Map before the first block: it counts the Map itself, and its
\* block_size starts at the length of the Map's header, so that the Map as
\* written tells its own length and the place of the first body.
NewMap(m) ==
    [revision_number |-> m.revision_number, block_size |-> MapHeaderLen,
     block_count |-> 1, block_info |-> <<>>]

\* add_block for the blocks from the k-th on: the buffer and the new Map
\* after the last, or the first exception.
RECURSIVE AddAll(_, _, _, _, _)
AddNext(items, k, m, r) ==
    IF r.st = "ok" THEN AddAll(items, k + 1, r.b, m, r.nm) ELSE Raise(r.st)

AddAll(items, k, b, m, nm) ==
    IF k > Len(items) THEN Ok([b |-> b, nm |-> nm], 0)
    ELSE AddNext(items, k, m,
                 add_block(b, m, nm, items[k].block, items[k].gen,
                           items[k].block_id))

\* encode(file, original_map): the Map as rebuilt, then the bodies.
encode(x, m) ==
    Bind(AddAll(Emitted(x), 1, <<>>, m, NewMap(m)),
         LAMBDA r : Bind(encode_map(r.val.nm),
                         LAMBDA mb : Ok(mb.val \o r.val.b, 0)))

-----------------------------------------------------------------------------
(* Specification SpecRoundTrip: decode a crafted file, encode the          *)
(* aggregate with the Map it came with, decode the result                  *)

\* The most pulse widths of the crafted fixed parameters.
MaxPulseWidths == 2

\* For each kind, the entries a crafted file may hold of it; <<>> for none.
RoundTripGen ==
    {<<>>, <<Exact(BLOCK_ID_GENPARAMS, 2, GenBody(LangEN))>>,
     <<Exact(BLOCK_ID_GENPARAMS, 2, GenBody(LangAccent))>>}

RoundTripSup == {<<>>, <<Exact(BLOCK_ID_SUPPARAMS, 3, SupBody)>>}

RoundTripFxd ==
    {<<>>} \cup {<<Exact(BLOCK_ID_FXDPARAMS, 4, FxdBody(n, 146800, 2500, 7))>> :
                    n \in 0..MaxPulseWidths}

RoundTripKey ==
    {<<>>, <<Exact(BLOCK_ID_KEYEVENTS, 5, KeyBody(1))>>,
     <<Exact(BLOCK_ID_KEYEVENTS, 5, KeyBody(2))>>}

RoundTripData ==
    {<<>>,
     <<Exact(BLOCK_ID_DATAPTS, 6,
             DataBody(<<[scale_factor |-> 1000, data |-> SampleData],
                        [scale_factor |-> 500, data |-> <<1>>]>>))>>}

RoundTripVendor == {<<>>, <<Exact(VendorId, 7, VendorBody)>>}

RoundTripInputs ==
    {CraftValidFile(g \o p \o f \o k \o d \o v) :
        g \in RoundTripGen, p \in RoundTripSup, f \in RoundTripFxd,
        k \in RoundTripKey, d \in RoundTripData, v \in RoundTripVendor}

InitRoundTrip ==
    /\ data \in RoundTripInputs
    /\ en = [pc |-> "start", x |-> None, encoded |-> None, y |-> None]
    /\ pf = Idle /\ ex = Idle /\ pr = Idle /\ co = Idle /\ an = Idle

RtDecode ==
    /\ en.pc = "start"
    /\ en' = [en EXCEPT !.pc = "decoded", !.x = parse_file(data)]
    /\ UNCHANGED <<data, pf, ex, pr, co, an>>

RtEncode ==
    /\ en.pc = "decoded" /\ IsOk(en.x)
    /\ en' = [en EXCEPT !.pc = "encoded",
                        !.encoded = encode(en.x.val, en.x.val.map)]
    /\ UNCHANGED <<data, pf, ex, pr, co, an>>

RtDecodeAgain ==
    /\ en.pc = "encoded" /\ IsOk(en.encoded)
    /\ en' = [en EXCEPT !.pc = "done", !.y = parse_file(en.encoded.val)]
    /\ UNCHANGED <<data, pf, ex, pr, co, an>>

NextRoundTrip == RtDecode \/ RtEncode \/ RtDecodeAgain

SpecRoundTrip == InitRoundTrip /\ [][NextRoundTrip]_vars

\* Every character of the fixed-width strings of the aggregate is one byte
\* (of the crafted blocks, the language code alone may hold another).
OneBytePerCharacter(x) ==
    x.general_parameters # None =>
        \A k \in 1..Len(x.general_parameters.language_code) :
            x.general_parameters.language_code[k] < 128

\* C6: the aggregate decoded from a crafted valid file, encoded with the
\* Map it was decoded with and decoded again, is the same aggregate, field
\* for field, the Map included: every string written is read back as it
\* was, and the rebuilt directory locates every body.
C6_RoundTrip ==
    /\ en.pc \in {"decoded", "encoded", "done"} => IsOk(en.x)
    /\ (en.pc \in {"encoded", "done"} /\ OneBytePerCharacter(en.x.val)) =>
           /\ IsOk(en.encoded)
           /\ en.encoded.val = data
    /\ (en.pc = "done" /\ OneBytePerCharacter(en.x.val)) =>
           /\ IsOk(en.y)
           /\ en.y.val = en.x.val

\* An aggregate with a block of every known kind has gone round.
C6_Witness ==
    /\ en.pc = "done" /\ IsOk(en.y) /\ en.y.val = en.x.val
    /\ en.x.val.general_parameters # None
    /\ en.x.val.supplier_parameters # None
    /\ en.x.val.fixed_parameters # None
    /\ Len(en.x.val.fixed_parameters.data_spacing) = 2
    /\ en.x.val.key_events # None
    /\ Len(en.x.val.key_events.key_events) = 1
    /\ en.x.val.data_points # None
    /\ Len(en.x.val.proprietary_blocks) = 1

-----------------------------------------------------------------------------
(* Specification SpecFixedStr: one call of encode_fixed_length_str         *)

\* The longest string written.
MaxStrLen == 3

\* Characters: NUL, "A", DEL (the last of one byte), U+0080 and U+00E9 (two
\* bytes), U+20AC (three bytes), and a surrogate, which has no encoding.
StrChars == {0, 65, 127, 128, 233, 8364, 55296}

\* The widths asked for: those of the format (2 and 6), and 0.
AskedLengths == {0, 2, 6}

InitFixedStr ==
    /\ en \in [pc : {"ready"}, b : {<<>>, <<1, 2>>},
               s : SeqsUpTo(StrChars, MaxStrLen), length : {0},
               before : {<<>>}, out : {None}]
    /\ data = <<>>
    /\ pf = Idle /\ ex = Idle /\ pr = Idle /\ co = Idle /\ an = Idle

\* The bytearray after a call with outcome r: b.extend is the last
\* statement, so that a call that raises leaves b as it was.
BufferAfter(b, r) == IF IsOk(r) THEN r.val ELSE b

\* A call encode_fixed_length_str(b, s, length).
EncodeFixed(length) ==
    /\ en.pc = "ready"
    /\ en' = [en EXCEPT !.pc = "done", !.length = length, !.before = en.b,
                        !.out = encode_fixed_length_str(en.b, en.s, length),
                        !.b = BufferAfter(en.b,
                                  encode_fixed_length_str(en.b, en.s, length))]
    /\ UNCHANGED <<data, pf, ex, pr, co, an>>

NextFixedStr == \E length \in AskedLengths : EncodeFixed(length)

SpecFixedStr == InitFixedStr /\ [][NextFixedStr]_vars

\* UTF-8 encodes the character in more than one byte.
MultiByte(cp) == cp >= 128 /\ ~(cp >= 55296 /\ cp <= 57343)

\* C11: encode_fixed_length_str fails for every string with a character
\* that UTF-8 encodes in more than one byte, and then the buffer is as it
\* was; a string of one-byte characters is accepted and its bytes, one per
\* character, follow in order what the buffer held.
C11_FixedStrEncodeLaw ==
    en.pc = "done" =>
        /\ (\E k \in 1..Len(en.s) : MultiByte(en.s[k])) =>
               ~IsOk(en.out) /\ en.b = en.before
        /\ (\A k \in 1..Len(en.s) : en.s[k] < 128) =>
               IsOk(en.out) /\ en.b = en.before \o en.s

\* A string whose last character takes three bytes has been refused after
\* two characters of one byte, and the buffer still holds its two bytes.
C11_Witness ==
    /\ en.pc = "done" /\ en.s = <<65, 127, 8364>>
    /\ en.out.st = "Exception" /\ en.before = <<1, 2>> /\ en.b = <<1, 2>>

\* C13: an accepted call appends exactly length bytes.
C13_FixedWidthOnEncode ==
    (en.pc = "done" /\ IsOk(en.out)) =>
        Len(en.b) - Len(en.before) = en.length

-----------------------------------------------------------------------------
(* fixed_length_str under SpecPrim: the offset it returns                  *)

\* A fixed_length_str call that had its N bytes.
FixedStrInRange ==
    /\ pr.pc = "done" /\ pr.op = "fixed_length_str"
    /\ Remaining >= pr.arg

\* The N bytes of the field.
FieldOfCall == SubSeq(data, pr.offset + 1, pr.offset + pr.arg)

\* C12 as stated: with at least N bytes remaining fixed_length_str always
\* returns offset + N, whatever the N bytes are.
C12_AlwaysAdvances ==
    FixedStrInRange => IsOk(pr.out) /\ pr.out.off = pr.offset + pr.arg

\* C12 as amended: with at least N bytes remaining fixed_length_str returns
\* offset + N whenever it returns, however many characters the N bytes
\* decode to; it returns for every field of bytes below 128, and when it
\* does not return it fails with ParseError on a field with a byte of 128
\* or more.
C12_AdvancesWhenDecoded ==
    FixedStrInRange =>
        /\ IsOk(pr.out) => pr.out.off = pr.offset + pr.arg
        /\ (\A k \in 1..Len(FieldOfCall) : FieldOfCall[k] < 128) =>
               IsOk(pr.out) /\ pr.out.val = FieldOfCall
        /\ ~IsOk(pr.out) =>
               /\ pr.out.st = "ParseError"
               /\ \E k \in 1..Len(FieldOfCall) : FieldOfCall[k] >= 128

\* Three bytes were read as two characters, and the offset advanced by 3.
C12_Witness ==
    /\ FixedStrInRange /\ IsOk(pr.out)
    /\ pr.arg = 3 /\ Len(pr.out.val) = 2
    /\ pr.out.off = pr.offset + 3

-----------------------------------------------------------------------------
(* Specification SpecClassify: the classification loop of plot_and_detect  *)
(* (lines 78-92) on a windowed trace with given slopes and curvatures      *)

\* The most samples of the windowed trace.
MaxTrace == 4

\* What a sample may have as slope and curvature: on either side of each
\* threshold, and NaN.
SampleShapes ==
    {[slope |-> Num(5), curve |-> Num(0)],
     [slope |-> Num(4), curve |-> Num(-1)],
     [slope |-> Num(-5), curve |-> Num(-1)],
     [slope |-> Num(-6), curve |-> Num(-1)],
     [slope |-> Num(-6), curve |-> Num(0)],
     [slope |-> NaN, curve |-> NaN]}

\* Windowed traces: n samples from first on, step apart.
Traces ==
    {[k \in 1..n |-> first + (k - 1) * step] :
        n \in 2..MaxTrace, first \in {0, 51}, step \in {6, 10}}

InitClassify ==
    /\ \E t \in Traces, shapes \in [1..MaxTrace -> SampleShapes] :
           an = [pc |-> "trimmed", spacing_trimmed |-> t,
                 shapes |-> SubSeq(shapes, 1, Len(t)), i |-> 0,
                 last_detected_point |-> 0, fiber_issues |-> <<>>,
                 back_reflections |-> <<>>]
    /\ data = <<>>
    /\ pf = Idle /\ ex = Idle /\ pr = Idle /\ co = Idle /\ en = Idle

\* Lines 78-80.
ClStart ==
    /\ an.pc = "trimmed"
    /\ an' = Derive(an)
    /\ UNCHANGED <<data, pf, ex, pr, co, en>>

\* Lines 82-92: the turn of the loop for index i.
ClTurn ==
    /\ an.pc = "loop"
    /\ an.i < Len(an.spacing_trimmed)
    /\ an' = Classify(an, an.spacing_trimmed[an.i + 1],
                      an.shapes[an.i + 1].slope, an.shapes[an.i + 1].curve)
    /\ UNCHANGED <<data, pf, ex, pr, co, en>>

\* range(1, len(slope)) is exhausted.
ClEnd ==
    /\ an.pc = "loop"
    /\ an.i >= Len(an.spacing_trimmed)
    /\ an' = [an EXCEPT !.pc = "done"]
    /\ UNCHANGED <<data, pf, ex, pr, co, en>>

NextClassify == ClStart \/ ClTurn \/ ClEnd

SpecClassify == InitClassify /\ [][NextClassify]_vars

\* The sample at position k is in the list.
Recorded(list, k) ==
    \E j \in 1..Len(list) : list[j] = an.spacing_trimmed[k]

\* The distance of the last fiber issue accepted before the sample at
\* position k, -10 when there is none.
LastAcceptedBefore(k) ==
    IF \E j \in 1..(k - 1) : Recorded(an.fiber_issues, j)
    THEN an.spacing_trimmed[CHOOSE j \in 1..(k - 1) :
             /\ Recorded(an.fiber_issues, j)
             /\ \A h \in (j + 1)..(k - 1) : ~Recorded(an.fiber_issues, h)]
    ELSE -10

\* The sample at position k is a fiber issue by the rule.
IsFiberIssue(k) ==
    /\ GreaterEq(an.shapes[k].slope, 5)
    /\ an.spacing_trimmed[k] - LastAcceptedBefore(k) >= 10

\* The samples from position k0 on are recorded as the rule says.
ClassifiedFrom(k0) ==
    \A k \in k0..Len(an.spacing_trimmed) :
        /\ Recorded(an.fiber_issues, k) <=> IsFiberIssue(k)
        /\ Recorded(an.back_reflections, k) <=>
               /\ ~IsFiberIssue(k)
               /\ Less(an.shapes[k].slope, -5)
               /\ Less(an.shapes[k].curve, 0)

Increasing(list) == \A j \in 1..(Len(list) - 1) : list[j] < list[j + 1]

\* C14: every sample of the windowed trace, the first included, is recorded
\* as a fiber issue exactly when its slope is >= 0.005 and it lies 10 or
\* more beyond the last accepted fiber issue (-10 at the start), otherwise
\* as a back reflection exactly when its slope is < -0.005 and its
\* curvature < 0; no sample is in both lists, both lists are in increasing
\* order and two fiber issues are 10 or more apart.
C14_EventClassification ==
    an.pc = "done" =>
        /\ ClassifiedFrom(1)
        /\ \A k \in 1..Len(an.spacing_trimmed) :
               ~(Recorded(an.fiber_issues, k)
                 /\ Recorded(an.back_reflections, k))
        /\ Increasing(an.fiber_issues) /\ Increasing(an.back_reflections)
        /\ \A j \in 1..(Len(an.fiber_issues) - 1) :
               an.fiber_issues[j + 1] - an.fiber_issues[j] >= 10

-----------------------------------------------------------------------------
(* The directory that add_block rebuilds, under SpecEncode                 *)

\* The bodies of the emitted blocks, one after the other.
RECURSIVE Bodies(_)
Bodies(emitted) ==
    IF emitted = <<>> THEN <<>>
    ELSE Head(emitted).body \o Bodies(Tail(emitted))

\* What the entries of the emitted blocks add to block_size.
RECURSIVE EntryBytes(_)
EntryBytes(emitted) ==
    IF emitted = <<>> THEN 0
    ELSE Len(Head(emitted).block_id) + 1 + 2 + 4 + EntryBytes(Tail(emitted))

\* C15: after a sequence of successful add_block calls from an empty buffer
\* and a new Map without entries (en.new), the new Map has one entry per emitted
\* block, in order, with the block's identifier, the revision number of an
\* entry of that identifier in the original Map and the length of its body
\* as size; the buffer is the bodies one after the other, so that the k-th
\* starts at the sum of the sizes before it; block_count has grown by the
\* number of entries and block_size by (identifier length + 1 + 2 + 4) for
\* each.
C15_DirectoryRebuild ==
    en.pc = "ready" =>
        /\ Len(en.nm.block_info) = Len(en.emitted)
        /\ \A k \in 1..Len(en.emitted) :
               /\ en.nm.block_info[k].identifier = en.emitted[k].block_id
               /\ en.nm.block_info[k].size = Len(en.emitted[k].body)
               /\ \E j \in 1..Len(en.m.block_info) :
                      /\ en.m.block_info[j].identifier = en.emitted[k].block_id
                      /\ en.m.block_info[j].revision_number
                             = en.nm.block_info[k].revision_number
               /\ SubSeq(en.b, Len(Bodies(SubSeq(en.emitted, 1, k - 1))) + 1,
                         Len(Bodies(SubSeq(en.emitted, 1, k))))
                      = en.emitted[k].body
        /\ en.b = Bodies(en.emitted)
        /\ en.nm.block_count = en.new.block_count + Len(en.emitted)
        /\ en.nm.block_size = en.new.block_size + EntryBytes(en.emitted)

\* Three blocks were emitted: two of different bodies around an empty one.
C15_Witness ==
    /\ en.pc = "ready" /\ Len(en.emitted) = 3
    /\ en.b = <<9, 7, 8>>
    /\ en.nm.block_info[1].identifier # en.nm.block_info[3].identifier
    /\ en.nm.block_info[2].size = 0

\* C16: a call of add_block, whether it returns or raises, leaves the
\* original Map and the block as they were; a call for an absent block
\* returns and changes neither the buffer nor the new Map.
C16_InputsNotMutated ==
    en.calls > 0 =>
        /\ en.m = en.before.m
        /\ en.block \in {None, SomeBlock}
        /\ en.block = None =>
               /\ en.st = "ok"
               /\ en.b = en.before.b
               /\ en.nm = en.before.nm

\* After a block was emitted, a call for an absent block has returned.
C16_Witness ==
    /\ en.calls > 1 /\ en.block = None /\ en.st = "ok"
    /\ Len(en.b) > 0 /\ en.b = en.before.b /\ en.nm = en.before.nm
    /\ en.block_id = BLOCK_ID_GENPARAMS

-----------------------------------------------------------------------------
(* Dispatch by identifier, under Spec                                      *)

\* The entries among the first n whose identifier is no known tag, in the
\* order of the directory.
RECURSIVE UnknownEntries(_)
UnknownEntries(n) ==
    IF n = 0 THEN <<>>
    ELSE IF Directory[n].identifier \notin KnownTags
    THEN Append(UnknownEntries(n - 1), n)
    ELSE UnknownEntries(n - 1)

\* pb is the ProprietaryBlock of the bytes bd: the header is what stands
\* before the first NUL, the data what follows it.
IsProprietaryOf(bd, pb) ==
    \E n \in 0..(Len(bd) - 1) :
        /\ bd[n + 1] = 0
        /\ \A j \in 1..n : bd[j] # 0
        /\ pb.header = Utf8Decode(SubSeq(bd, 1, n)).val
        /\ pb.data = SubSeq(bd, n + 2, Len(bd))

\* The bytes parse_file hands to the decoder of entry k.
BytesOf(k) == BlockData(data, Directory[k], pf.map_blk).val

\* The proprietary blocks collected are those of the unknown entries among
\* the first n, in that order.
CollectedUpTo(blocks, n) ==
    /\ Len(blocks) = Len(UnknownEntries(n))
    /\ \A j \in 1..Len(blocks) :
           IsProprietaryOf(BytesOf(UnknownEntries(n)[j]), blocks[j])

\* C17: parse_file processes the entries in declared order; link_parameters
\* is never populated; parse_file never raises at an entry named LnkParams
\* or Cksum, and such an entry leaves the locals as they were; and the
\* proprietary blocks are one per entry of unknown identifier processed so
\* far, in directory order, in the locals and in the SORFile returned.
C17_DispatchByIdentifier ==
    /\ pf.pc # "start" => pf.loc.link_parameters = None
    /\ pf.pc = "done" => pf.ret.link_parameters = None
    /\ MapParsed =>
           /\ pf.i \in 1..(Len(Directory) + 1)
           /\ pf.pc = "raised" =>
                  Directory[pf.i].identifier
                      \notin {BLOCK_ID_LNKPARAMS, BLOCK_ID_CHECKSUM}
           /\ \A k \in 1..Len(Directory) :
                  Directory[k].identifier
                          \in {BLOCK_ID_LNKPARAMS, BLOCK_ID_CHECKSUM}
                      => \A loc \in {NoBlocks, pf.loc} :
                             ParseEntry(data, pf.map_blk, Directory[k], loc)
                                 = Ok(loc, 0)
           /\ CollectedUpTo(pf.loc.proprietary_blocks, pf.i - 1)
           /\ pf.pc = "done" =>
                  CollectedUpTo(pf.ret.proprietary_blocks, Len(Directory))

\* A decode that returned after an entry of unknown identifier and a
\* LnkParams entry whose range leaves the buffer.
C17_Witness ==
    /\ pf.pc = "done" /\ Len(Directory) = 2
    /\ Directory[1].identifier = VendorId
    /\ Directory[2].identifier = BLOCK_ID_LNKPARAMS /\ RangeInvalid(2)
    /\ Len(pf.ret.proprietary_blocks) = 1
    /\ pf.ret.proprietary_blocks[1].header = VendorId
    /\ pf.ret.link_parameters = None

-----------------------------------------------------------------------------
(* Specification SpecBlocks: fixed_parameters_block and data_points_block  *)
(* on crafted block bodies whose declared counts need not match what the   *)
(* buffer holds                                                            *)

\* The counts a crafted block declares: negative ones included.
DeclaredCounts == (0 - 2)..MaxPulseWidths

Prefixes(b) == {SubSeq(b, 1, l) : l \in 0..Len(b)}

\* Fixed parameters blocks declaring n pulse widths, whole and cut short.
FxdInputs ==
    UNION {Prefixes(FxdBody(n, 146800, 2500, 0)) : n \in DeclaredCounts}

\* A scale-factor group that declares n_points and holds the samples data.
CraftGroupDeclared(g) ==
    CraftFields(<<"i32", "i16">> \o Repeat("u16", Len(g.data)),
                <<g.n_points, g.scale_factor>> \o g.data)

RECURSIVE CraftGroupsDeclared(_)
CraftGroupsDeclared(groups) ==
    IF groups = <<>> THEN <<>>
    ELSE CraftGroupDeclared(Head(groups)) \o CraftGroupsDeclared(Tail(groups))

\* A data points block that declares n scale factors and holds groups.
DataBodyDeclared(n, groups) ==
    CraftBlock(BLOCK_ID_DATAPTS, <<"i32", "i16">>, <<Len(groups), n>>)
    \o CraftGroupsDeclared(groups)

GroupOptions ==
    [n_points : (0 - 1)..2, scale_factor : {1000},
     data : {<<>>, <<65535>>, <<65535, 64000>>}]

DataInputs ==
    {DataBodyDeclared(n, groups) :
        n \in DeclaredCounts, groups \in SeqsUpTo(GroupOptions, 2)}

InitBlocks ==
    /\ data \in FxdInputs \cup DataInputs
    /\ pr = [pc |-> "ready", op |-> "none", out |-> None]
    /\ pf = Idle /\ ex = Idle /\ co = Idle /\ an = Idle /\ en = Idle

\* One call of a typed decoder at offset 0: what it returned or raised.
Decoded(op, out) == [pc |-> "done", op |-> op, out |-> out]

DecodeFixedParameters ==
    /\ pr.pc = "ready"
    /\ pr' = Decoded("fixed_parameters_block", fixed_parameters_block(data, 0))
    /\ UNCHANGED <<data, pf, ex, co, an, en>>

DecodeDataPoints ==
    /\ pr.pc = "ready"
    /\ pr' = Decoded("data_points_block", data_points_block(data, 0))
    /\ UNCHANGED <<data, pf, ex, co, an, en>>

NextBlocks == DecodeFixedParameters \/ DecodeDataPoints

SpecBlocks == InitBlocks /\ [][NextBlocks]_vars

\* The decoder op returned.
Returned(op) == pr.pc = "done" /\ pr.op = op /\ IsOk(pr.out)

\* Where the arrays of the fixed parameters block start.
FxdArraysAt ==
    ReadFields(data, Len(BLOCK_ID_FXDPARAMS) + 1, FxdParamsHead).off

\* The values v are the c reads of kind (w bytes each) from offset on.
ReadInRow(v, kind, w, offset, c) ==
    \A k \in 1..c :
        ReadField(data, offset + w * (k - 1), kind) = Ok(v[k], offset + w * k)

\* C18 (as claimed): whenever fixed_parameters_block succeeds, the three
\* arrays have the same length, which is the decoded count
\* total_n_pulse_widths_used, whatever the signed count read; and the N
\* pulse widths, then the N spacings, then the N point counts are read in
\* that order.
C18_FixedParametersArrays ==
    Returned("fixed_parameters_block") =>
        /\ Len(pr.out.val.pulse_widths_used)
               = pr.out.val.total_n_pulse_widths_used
        /\ Len(pr.out.val.data_spacing)
               = pr.out.val.total_n_pulse_widths_used
        /\ Len(pr.out.val.n_data_points_for_pulse_widths_used)
               = pr.out.val.total_n_pulse_widths_used
        /\ ReadInRow(pr.out.val.pulse_widths_used, "i16", 2, FxdArraysAt,
                     pr.out.val.total_n_pulse_widths_used)
        /\ ReadInRow(pr.out.val.data_spacing, "i32", 4,
                     FxdArraysAt + 2 * pr.out.val.total_n_pulse_widths_used,
                     pr.out.val.total_n_pulse_widths_used)
        /\ ReadInRow(pr.out.val.n_data_points_for_pulse_widths_used, "i32", 4,
                     FxdArraysAt + 6 * pr.out.val.total_n_pulse_widths_used,
                     pr.out.val.total_n_pulse_widths_used)

\* C19 (as claimed): whenever data_points_block succeeds, it decoded as
\* many scale-factor groups as total_number_scale_factors_used declares,
\* and each group holds as many samples as its n_points declares, whatever
\* the signed counts read.
C19_DataPointsLengths ==
    Returned("data_points_block") =>
        /\ Len(pr.out.val.scale_factors)
               = pr.out.val.total_number_scale_factors_used
        /\ \A k \in 1..Len(pr.out.val.scale_factors) :
               Len(pr.out.val.scale_factors[k].data)
                   = pr.out.val.scale_factors[k].n_points

-----------------------------------------------------------------------------
(* Bounds of the extracted range, under SpecExtract                        *)

\* C20 (as claimed): whenever extract_block_data returns for an entry of
\* the directory, the bytes returned are data[o : o + size] with
\* 0 <= o <= o + size <= len(data), o being block_size plus the preceding
\* sizes and size the entry's: as many bytes as size, from offset o, also
\* for Maps with a negative block_size or negative sizes.
C20_ExtractWithinBounds ==
    (ex.pc = "done" /\ IsOk(ex.out)) =>
        \A k \in 1..Len(ex.map_blk.block_info) :
            Requested(k) =>
                /\ 0 <= StartOf(k)
                /\ 0 <= ex.map_blk.block_info[k].size
                /\ StartOf(k) + ex.map_blk.block_info[k].size <= Len(data)
                /\ Len(ex.out.val) = ex.map_blk.block_info[k].size
                /\ \A n \in 1..Len(ex.out.val) : ex.out.val[n] = StartOf(k) + n

-----------------------------------------------------------------------------
(* The shape of the intervals coallesce_results returns, under             *)
(* SpecCoalesce                                                            *)

\* The values of the hits.
HitsOf(hits) == {hits[p] : p \in 1..Len(hits)}

\* The intervals of ret that hold the value h.
Holding(ret, h) == {k \in 1..Len(ret) : ret[k][1] <= h /\ h <= ret[k][2]}

\* C21: for a non-decreasing list of hits, coallesce_results returns
\* intervals [a, b] with a <= b, both endpoints input hits and b - a <= 75;
\* the intervals are pairwise disjoint and in increasing order, consecutive
\* starts differ by more than 75, every input hit lies in exactly one
\* interval, and there are at most as many intervals as hits.
C21_IntervalShape ==
    (co.pc = "done" /\ IsSorted(co.detected_fiber_issues)) =>
        /\ \A k \in 1..Len(co.ret) :
               /\ co.ret[k][1] <= co.ret[k][2]
               /\ co.ret[k][2] - co.ret[k][1] <= MergeThreshold
               /\ co.ret[k][1] \in HitsOf(co.detected_fiber_issues)
               /\ co.ret[k][2] \in HitsOf(co.detected_fiber_issues)
        /\ \A j, k \in 1..Len(co.ret) :
               j < k => co.ret[j][2] < co.ret[k][1]
        /\ \A k \in 1..(Len(co.ret) - 1) :
               co.ret[k + 1][1] - co.ret[k][1] > MergeThreshold
        /\ \A p \in 1..Len(co.detected_fiber_issues) :
               Cardinality(Holding(co.ret, co.detected_fiber_issues[p])) = 1
        /\ Len(co.ret) <= Len(co.detected_fiber_issues)

\* Five ascending hits, one repeated, returned as two intervals: the first
\* as wide as the threshold allows, the second opened one beyond it.
C21_Witness ==
    /\ co.pc = "done"
    /\ co.detected_fiber_issues = <<10, 12, 12, 85, 86>>
    /\ co.ret = <<<<10, 85>>, <<86, 86>>>>

====
